---- MODULE Spec2Model ----
(***************************************************************************)
(* Exploration engine of droidbot/input_policy.py: the policy loop         *)
(* (InputPolicy.start), the UTG-based event generation, the greedy and     *)
(* naive graph-search policies and the task policy, against a device       *)
(* whose next screen is chosen by the environment.                         *)
(***************************************************************************)
EXTENDS Integers, Sequences, FiniteSets, TLC

VARIABLES
    policy,          \* which policy class the loop drives
    pc,              \* position of InputPolicy.start: "loop", "generate", "send", "stopped"
    stop_cause,      \* why the loop left RUNNING ("none" while running)
    enabled,         \* input_manager.enabled
    event_count,     \* input_manager.event_count
    action_count,    \* InputPolicy.action_count
    master,          \* InputPolicy.master
    pending,         \* the local variable `event` of InputPolicy.start
    faults,          \* exceptions caught by `except Exception` so far
    submitted,       \* number of calls of input_manager.add_event
    first_submitted, \* the event of the first add_event call
    last_submitted,  \* the event of the latest add_event call
    gen_calls,       \* number of calls of generate_event
    gen_before_first, \* generate_event calls made before the first add_event
    \* ----- UtgBasedInputPolicy and the greedy policy
    random_input,    \* UtgBasedInputPolicy.random_input
    search_method,   \* UtgGreedySearchPolicy.search_method
    current_state,   \* UtgBasedInputPolicy.current_state
    utg,             \* the transitions recorded in UtgBasedInputPolicy.utg
    nav_target,      \* __nav_target
    nav_num_steps,   \* __nav_num_steps
    num_restarts,    \* __num_restarts
    num_steps_outside, \* __num_steps_outside
    event_trace,     \* __event_trace (its last two flags)
    missed_states,   \* __missed_states
    random_explore,  \* __random_explore
    returned,        \* what the latest generate_event_based_on_utg call returned or raised
    rule,            \* the branch of the method that produced it
    nav_path,        \* the navigation steps that branch obtained (<<>> when none)
    calls,           \* number of generate_event_based_on_utg calls so far
    last_state,      \* UtgBasedInputPolicy.last_state
    last_event,      \* UtgBasedInputPolicy.last_event
    \* ----- the environment
    avail,           \* the screens the device can show in this run
    pool,            \* the transitions callers of UTG.add_transition can record in this run
    call_budget,     \* how many calls of the policy the run makes at most
    \* ----- UtgNaiveSearchPolicy
    last_event_flag, \* last_event_flag: how many start flags it holds, and its last flag
    last_event_str,  \* last_event_str
    explored_views,  \* explored_views
    state_transitions, \* state_transitions
    \* ----- the device and TaskPolicy
    dev,             \* the screen the device shows (None: no state can be read)
    layout,          \* the views the scrollable region shows at each scroll position
    dev_received,    \* number of events the device has received
    direct_sent,     \* number of them sent by device.send_event inside the policy
    action_history,  \* __action_history
    thought_history, \* __thought_history
    journal,         \* the records _save2yaml has appended to the task's yaml file
    flat,            \* what the latest flattening of a scrollable region did: the scroll
                     \* events of its three passes, the screens at the start and the end of
                     \* the downward pass, the number of new views of each downward scroll
                     \* and the event sequences recorded for the views
    notes,           \* config["app_notes"]: what the credential patterns find in it
    answers,         \* the indices the decision oracle can answer in this run
    answer,          \* the index the oracle answered in the latest call, <<>> if none
    text,            \* the text of the SetTextEvent the latest call returned, else None
    event_paths,     \* UtgReplayPolicy: the recorded entries, in the order of their files
    event_idx,       \* UtgReplayPolicy: the read cursor
    num_replay_tries,
    replayed,        \* the recorded events generate_event has returned so far
    shown,           \* the recorded entry whose start state the device shows, 0 if the
                     \* device shows screens of its own choosing
    met,             \* the device at the end of the latest call of the replay policy:
                     \* its current state and its answer to is_foreground(app)
    passes,          \* the passes of its outer loop the latest call of the replay
                     \* policy made
    state_callbacks, \* the callbacks registered with device.add_state_callback
    unique_screens,  \* TaskPolicyAdapter.unique_screens
    unique_screens_limit,
    task_policy,     \* TaskPolicyAdapter.task_policy: 0 for None, else the number of the
                     \* TaskPolicy instance the adapter has made
    \* ----- MemoryAdapter and the state callbacks of run_droidbot
    visited_states,  \* MemoryAdapter.visited_states
    visited_sections, \* MemoryAdapter.visited_sections, with the found_elements of each
    navigation_history, \* current_app_data["navigation_history"]
    memory_transitions, \* MemoryAdapter.state_transitions
    memory_last_state, \* MemoryAdapter.last_state (None while the attribute is not set)
    exploration_complete, \* MemoryAdapter.exploration_complete
    observed,        \* the state the device is handing to its callbacks, and whether
                     \* its screenshot file exists
    to_run           \* the callbacks that have not run for it yet

loopVars == <<policy, pc, stop_cause, enabled, event_count, action_count, master,
              pending, faults, submitted, first_submitted, last_submitted,
              gen_calls, gen_before_first>>

utgVars == <<random_input, search_method, current_state, utg, nav_target, nav_num_steps,
             num_restarts, num_steps_outside, event_trace, missed_states, random_explore,
             returned, rule, nav_path, calls, last_state, last_event>>

envVars == <<avail, pool, call_budget>>

naiveVars == <<last_event_flag, last_event_str, explored_views, state_transitions>>

taskVars == <<dev, layout, dev_received, direct_sent, action_history, thought_history,
              journal, flat, notes, answers, answer, text>>

replayVars == <<event_paths, event_idx, num_replay_tries, replayed, shown, met,
               passes>>

memoryVars == <<visited_states, visited_sections, navigation_history, memory_transitions,
                memory_last_state, exploration_complete, observed, to_run>>

adapterVars == <<state_callbacks, unique_screens, unique_screens_limit, task_policy,
                 memoryVars>>

vars == <<loopVars, utgVars, envVars, naiveVars, taskVars, replayVars, adapterVars>>

None == "None"

\* ----- bounds of the model
EventCount == 4
MaxFaults == 2

MaxCalls == 3

\* the action budget of the runs on authentication screens
AuthSteps == 3

\* the entries of the histories and of the journal kept in the runs that never end
HistoryKept == 1

\* the state changes the memory adapter records in a run of the callbacks
MaxTransitions == 3

\* the calls a greedy run makes besides those of a wait outside the app
RunCalls == 10

\* ----- program constants
FINISHED == "task_completed"
MAX_SCROLL_NUM == 7
KillAppEvent == "KILL"
MAX_NUM_RESTARTS == 5
MAX_NUM_STEPS_OUTSIDE == 1000
MAX_NUM_STEPS_OUTSIDE_KILL == 1000
EVENT_FLAG_START_APP == "+start_app"
EVENT_FLAG_STOP_APP == "+stop_app"
EVENT_FLAG_EXPLORE == "+explore"
EVENT_FLAG_NAVIGATE == "+navigate"
EVENT_FLAG_STARTED == "+started"
EVENT_FLAG_TOUCH == "+touch"
POLICY_NAIVE_DFS == "dfs_naive"
POLICY_NAIVE_BFS == "bfs_naive"
POLICY_GREEDY_DFS == "dfs_greedy"
POLICY_GREEDY_BFS == "bfs_greedy"
BACK == "BACK"
StartIntent == "START"
StopIntent == "STOP"

\* ----- InputPolicy.start ------------------------------------------------

\* the while condition of InputPolicy.start
LoopConditionNoBudget == enabled

LoopCondition == enabled /\ action_count < event_count

\* the first branch of the loop body: the forced kill-app event
IsFirstActionSecond == action_count = 1 /\ master = None

IsFirstAction == action_count = 0 /\ master = None

\* `if event == FINISHED: break`, else on to add_event
LoopDispatchNoBreak(event) == "send"

LoopDispatch(event) == IF event = FINISHED THEN "stopped" ELSE "send"

\* the except clauses of InputPolicy.start: where the loop is after `kind` was raised
OnExceptionAllFatal(kind) == "stopped"

OnException(kind) ==
    IF kind = "KeyboardInterrupt" THEN "stopped"
    ELSE IF kind = "InputInterruptedException" THEN "stopped"
    ELSE "loop"

\* the loop state after generate_event returned `event`
Returned(event) ==
    /\ pending' = event
    /\ pc' = LoopDispatch(event)
    /\ stop_cause' = IF LoopDispatch(event) = "stopped" THEN "finished" ELSE stop_cause
    /\ gen_calls' = gen_calls + 1
    /\ gen_before_first' = IF submitted = 0 THEN gen_before_first + 1 ELSE gen_before_first
    /\ UNCHANGED <<policy, enabled, event_count, action_count, master, faults,
                   submitted, first_submitted, last_submitted>>

\* the loop state after generate_event (called = TRUE) or add_event raised `kind`
Raised(kind, called) ==
    /\ kind = "Exception" => faults < MaxFaults
    /\ pc' = OnException(kind)
    /\ stop_cause' = IF OnException(kind) = "stopped" THEN kind ELSE stop_cause
    /\ faults' = IF kind = "Exception" THEN faults + 1 ELSE faults
    /\ pending' = None
    /\ gen_calls' = IF called THEN gen_calls + 1 ELSE gen_calls
    /\ gen_before_first' = IF called /\ submitted = 0 THEN gen_before_first + 1
                           ELSE gen_before_first
    /\ UNCHANGED <<policy, enabled, event_count, action_count, master>>

\* top of one iteration: the while condition, then the kill-app branch or generate_event
LoopTop ==
    /\ pc = "loop"
    /\ IF ~LoopCondition
       THEN /\ pc' = "stopped"
            /\ stop_cause' = IF enabled THEN "budget" ELSE "disabled"
            /\ UNCHANGED pending
       ELSE IF IsFirstAction
       THEN /\ pc' = "send"
            /\ pending' = KillAppEvent
            /\ UNCHANGED stop_cause
       ELSE /\ pc' = "generate"
            /\ UNCHANGED <<pending, stop_cause>>
    /\ UNCHANGED <<policy, enabled, event_count, action_count, master, faults,
                   submitted, first_submitted, last_submitted, gen_calls, gen_before_first>>
    /\ UNCHANGED <<utgVars, envVars, naiveVars, taskVars, replayVars,
                   adapterVars>>

\* input_manager.add_event(event) and the increment that ends the iteration
AddEventCounts ==
    /\ submitted' = submitted + 1
    /\ first_submitted' = IF submitted = 0 THEN pending ELSE first_submitted
    /\ last_submitted' = pending

\* input_manager.stop() from the host: clears the enabled flag
Disable ==
    /\ pc # "stopped"
    /\ enabled
    /\ enabled' = FALSE
    /\ UNCHANGED <<policy, pc, stop_cause, event_count, action_count, master, pending,
                   faults, submitted, first_submitted, last_submitted, gen_calls,
                   gen_before_first>>
    /\ UNCHANGED <<utgVars, envVars, naiveVars, taskVars, replayVars,
                   adapterVars>>

\* ----- the loop over an abstract policy (InputPolicy.generate_event is abstract)

AbstractEvents == {"ev1", "ev2", FINISHED}
ExceptionKinds == {"KeyboardInterrupt", "InputInterruptedException", "Exception"}

AbstractGenerate ==
    /\ pc = "generate"
    /\ policy = "abstract"
    /\ UNCHANGED <<utgVars, envVars, naiveVars, taskVars, replayVars,
                   adapterVars>>
    /\ \/ \E e \in AbstractEvents :
            Returned(e)
       \/ \E k \in ExceptionKinds :
            /\ Raised(k, TRUE)
            /\ UNCHANGED <<submitted, first_submitted, last_submitted>>

AbstractAddEvent ==
    /\ pc = "send"
    /\ policy = "abstract"
    /\ UNCHANGED <<utgVars, envVars, naiveVars, taskVars, replayVars,
                   adapterVars>>
    /\ \/ /\ AddEventCounts
          /\ action_count' = action_count + 1
          /\ pc' = "loop"
          /\ pending' = None
          /\ UNCHANGED <<policy, stop_cause, enabled, event_count, master, faults,
                         gen_calls, gen_before_first>>
       \/ \E k \in ExceptionKinds :
            /\ AddEventCounts
            /\ Raised(k, FALSE)

\* ----- the loop in runs of any length: the counters of the model stop at their caps

\* the policies of this module whose generate_event takes no input_manager argument,
\* so that the call self.generate_event(input_manager) of start raises TypeError
NoArgumentPolicies == {"none", "replay"}

\* a counter of the model, counted up to cap
Counted(n, cap) == IF n < cap THEN n + 1 ELSE n

\* the loop state after generate_event raised an exception of class Exception
GenerateRaised ==
    /\ pc' = OnException("Exception")
    /\ faults' = Counted(faults, MaxFaults)
    /\ gen_calls' = Counted(gen_calls, MaxFaults)
    /\ gen_before_first' = IF submitted = 0 THEN Counted(gen_before_first, MaxFaults)
                           ELSE gen_before_first
    /\ pending' = None
    /\ UNCHANGED <<policy, stop_cause, enabled, event_count, action_count, master,
                   submitted, first_submitted, last_submitted>>

\* self.generate_event(input_manager) in a run of any length: NoneInputPolicy and
\* UtgReplayPolicy raise TypeError, the abstract policy returns an event or raises
RunGenerate ==
    /\ pc = "generate"
    /\ \/ /\ policy \in NoArgumentPolicies
          /\ GenerateRaised
       \/ /\ policy = "abstract"
          /\ \/ \E e \in AbstractEvents : Returned(e)
             \/ GenerateRaised
    /\ UNCHANGED <<utgVars, envVars, naiveVars, taskVars, replayVars, adapterVars>>

\* input_manager.add_event(event) on a device that accepts every event, and the
\* increment that ends the iteration
RunAddEvent ==
    /\ pc = "send"
    /\ AddEventCounts
    /\ action_count' = action_count + 1
    /\ pc' = "loop"
    /\ pending' = None
    /\ UNCHANGED <<policy, stop_cause, enabled, event_count, master, faults,
                   gen_calls, gen_before_first>>
    /\ UNCHANGED <<utgVars, envVars, naiveVars, taskVars, replayVars, adapterVars>>

\* ----- the device's screens ------------------------------------------------

\* the screens the device can show: three foreground screens of the app, the
\* launcher (app not running) and a screen of another app on top of the app
States == {"A", "B", "C", "H", "O"}

\* the screens of another app that the device shows one after the other while that
\* app is on top
OutsideScreen(k) == "X" \o ToString(k)

OutsideScreens == {OutsideScreen(k) : k \in 1..(MAX_NUM_STEPS_OUTSIDE + 1)}

OutsideIndex(s) == CHOOSE k \in 1..(MAX_NUM_STEPS_OUTSIDE + 1) : s = OutsideScreen(k)

\* DeviceState.get_app_activity_depth(app)
Depth(s) ==
    IF s = "H" THEN -1
    ELSE IF s = "O" \/ s \in OutsideScreens THEN 1
    ELSE 0

\* DeviceState.get_possible_input(): the events the screen offers, in order
Offered(s) ==
    IF s = "A" THEN <<"a1", "a2">>
    ELSE IF s = "B" THEN <<"b1">>
    ELSE IF s = "C" THEN <<"c1">>
    ELSE IF s = "H" THEN <<"h1">>
    ELSE IF s = "P" THEN <<"p1", "p2">>
    ELSE IF s = "W" THEN <<"q1", "q2", "q3">>
    ELSE IF s = "V" THEN <<"r1", "r2">>
    ELSE IF s = "N" THEN <<"n1">>
    ELSE <<>>

Range(q) == {q[i] : i \in DOMAIN q}

\* random.shuffle(list): the orders the list can end up in
Shuffles(q) ==
    {p \in [DOMAIN q -> Range(q)] : \A i \in DOMAIN q : \E j \in DOMAIN q : p[j] = q[i]}

\* ----- UTG ---------------------------------------------------------------

\* UTG.add_transition(event, old_state, new_state)
AddTransitionReplacing(g, e, s, t) ==
    IF s = None \/ t = None \/ e = None THEN g
    ELSE {x \in g : x[1] # s} \cup {<<s, e, t>>}

AddTransitionUnguarded(g, e, s, t) == g \cup {<<s, e, t>>}

AddTransition(g, e, s, t) ==
    IF s = None \/ t = None \/ e = None THEN g ELSE g \cup {<<s, e, t>>}

\* UTG.is_event_explored(event, state)
IsEventExplored(g, e, s) == \E tr \in g : tr[1] = s /\ tr[2] = e

\* UTG.is_state_explored(state)
IsStateExplored(g, s) == \A i \in DOMAIN Offered(s) : IsEventExplored(g, Offered(s)[i], s)

Successors(g, S) == {tr[3] : tr \in {x \in g : x[1] \in S}}

\* the states of S and those one recorded transition away from them
Grown(g, S) == S \cup Successors(g, S)

\* the least set that holds S and the successors of its states, eight steps at a time
RECURSIVE Closure(_, _)
Closure(g, S) ==
    LET T == Grown(g, Grown(g, Grown(g, Grown(g, Grown(g, Grown(g, Grown(g, Grown(g, S))))))))
    IN  IF T = S THEN S ELSE Closure(g, T)

\* UTG.get_reachable_states(state): the states some recorded path leads to
GetReachableStates(g, s) == Closure(g, Successors(g, {s}))

\* breadth-first search from the frontier: the number of the level that holds b, -1 if none
RECURSIVE BfsLevel(_, _, _, _, _)
BfsLevel(g, frontier, visited, b, k) ==
    IF b \in frontier THEN k
    ELSE LET next == Successors(g, frontier) \ visited
         IN  IF next = {} THEN -1
             ELSE BfsLevel(g, next, visited \cup next, b, k + 1)

BfsDistance(g, a, b) == BfsLevel(g, {a}, {a}, b, 0)

\* the paths of n steps from a to b along which the distance to b falls by one a step
RECURSIVE LevelPaths(_, _, _, _)
LevelPaths(g, a, b, n) ==
    IF n = 0 THEN (IF a = b THEN {<<>>} ELSE {})
    ELSE UNION {{<<<<a, tr[2]>>>> \o p : p \in LevelPaths(g, tr[3], b, n - 1)} :
                tr \in {x \in g : x[1] = a /\ BfsDistance(g, x[3], b) = n - 1}}

\* a path that visits the states in depth-first order, whatever its length
RECURSIVE AnyPaths(_, _, _, _)
AnyPaths(g, a, b, seen) ==
    IF a = b THEN {<<>>}
    ELSE UNION {{<<<<a, tr[2]>>>> \o p : p \in AnyPaths(g, tr[3], b, seen \cup {tr[3]})} :
                tr \in {x \in g : x[1] = a /\ x[3] \notin seen}}

NavigationStepsAnyPath(g, a, b) ==
    IF AnyPaths(g, a, b, {a}) = {} THEN {<<>>} ELSE AnyPaths(g, a, b, {a})

\* UTG.get_navigation_steps(from_state, to_state): the sequences of (state, event)
\* it can return; {<<>>} when it finds no step to take
NavigationSteps(g, a, b) ==
    IF BfsDistance(g, a, b) <= 0 THEN {<<>>}
    ELSE LevelPaths(g, a, b, BfsDistance(g, a, b))

\* ----- the restart / outside-app state machine -----------------------------

\* __event_trace += flag; the model keeps the last two flags, all that endswith reads
TraceAppend(t, f) ==
    IF Len(t) < 2 THEN Append(t, f) ELSE <<t[Len(t)], f>>

\* __event_trace.endswith(the flags of suffix)
EndsWith(t, suffix) ==
    /\ Len(t) >= Len(suffix)
    /\ SubSeq(t, Len(t) - Len(suffix) + 1, Len(t)) = suffix

EndsWithStart(t) == EndsWith(t, <<EVENT_FLAG_START_APP>>)

\* the new __num_restarts on a poll that finds the app not running
RestartCount(t, n) ==
    IF EndsWith(t, <<EVENT_FLAG_START_APP, EVENT_FLAG_STOP_APP>>) \/ EndsWithStart(t)
    THEN n + 1
    ELSE 0

\* the event of the outside-app branch once the counter n is over MAX_NUM_STEPS_OUTSIDE
GoBackEvent(n) ==
    IF n > MAX_NUM_STEPS_OUTSIDE_KILL THEN StopIntent ELSE BACK

\* the first part of generate_event_based_on_utg, with random mode lasting for one call
RecoveryRandomForOnePoll(cur, t, restarts, outside, random) ==
    IF Depth(cur) < 0
    THEN LET n == RestartCount(t, restarts)
         IN  IF EndsWithStart(t)
             THEN [ret |-> None, rule |-> "pass", trace |-> t, restarts |-> n,
                   outside |-> outside, random |-> FALSE]
             ELSE IF n > MAX_NUM_RESTARTS
             THEN [ret |-> None, rule |-> "random_on", trace |-> t, restarts |-> n,
                   outside |-> outside, random |-> TRUE]
             ELSE [ret |-> StartIntent, rule |-> "start",
                   trace |-> TraceAppend(t, EVENT_FLAG_START_APP), restarts |-> n,
                   outside |-> outside, random |-> FALSE]
    ELSE IF Depth(cur) > 0
    THEN IF outside + 1 > MAX_NUM_STEPS_OUTSIDE
         THEN [ret |-> GoBackEvent(outside + 1), rule |-> "outside",
               trace |-> TraceAppend(t, EVENT_FLAG_NAVIGATE), restarts |-> restarts,
               outside |-> outside + 1, random |-> FALSE]
         ELSE [ret |-> None, rule |-> "pass", trace |-> t, restarts |-> restarts,
               outside |-> outside + 1, random |-> FALSE]
    ELSE [ret |-> None, rule |-> "pass", trace |-> t, restarts |-> restarts,
          outside |-> 0, random |-> FALSE]

\* the first part of generate_event_based_on_utg, the same in the greedy and the task
\* policy: the fields after it and the event it returns (None: go on to select an event)
Recovery(cur, t, restarts, outside, random) ==
    IF Depth(cur) < 0
    THEN LET n == RestartCount(t, restarts)
         IN  IF EndsWithStart(t)
             THEN [ret |-> None, rule |-> "pass", trace |-> t, restarts |-> n,
                   outside |-> outside, random |-> random]
             ELSE IF n > MAX_NUM_RESTARTS
             THEN [ret |-> None, rule |-> "random_on", trace |-> t, restarts |-> n,
                   outside |-> outside, random |-> TRUE]
             ELSE [ret |-> StartIntent, rule |-> "start",
                   trace |-> TraceAppend(t, EVENT_FLAG_START_APP), restarts |-> n,
                   outside |-> outside, random |-> random]
    ELSE IF Depth(cur) > 0
    THEN IF outside + 1 > MAX_NUM_STEPS_OUTSIDE
         THEN [ret |-> GoBackEvent(outside + 1), rule |-> "outside",
               trace |-> TraceAppend(t, EVENT_FLAG_NAVIGATE), restarts |-> restarts,
               outside |-> outside + 1, random |-> random]
         ELSE [ret |-> None, rule |-> "pass", trace |-> t, restarts |-> restarts,
               outside |-> outside + 1, random |-> random]
    ELSE [ret |-> None, rule |-> "pass", trace |-> t, restarts |-> restarts,
          outside |-> 0, random |-> random]

\* ----- UtgGreedySearchPolicy -----------------------------------------------

\* possible_events after the shuffle and the BACK event of the search method
PossibleEventListsBackFirst(cur, ri, sm) ==
    {<<BACK>> \o q : q \in IF ri THEN Shuffles(Offered(cur)) ELSE {Offered(cur)}}

PossibleEventLists(cur, ri, sm) ==
    {IF sm = POLICY_GREEDY_DFS THEN Append(q, BACK)
     ELSE IF sm = POLICY_GREEDY_BFS THEN <<BACK>> \o q
     ELSE q :
     q \in IF ri THEN Shuffles(Offered(cur)) ELSE {Offered(cur)}}

\* the index of the first event of the list unexplored from cur, 0 if there is none
FirstUnexplored(g, pe, cur) ==
    IF \A i \in DOMAIN pe : IsEventExplored(g, pe[i], cur) THEN 0
    ELSE CHOOSE i \in DOMAIN pe :
            /\ ~IsEventExplored(g, pe[i], cur)
            /\ \A j \in DOMAIN pe : j < i => IsEventExplored(g, pe[j], cur)

\* __get_nav_target: whether the target of the previous navigation step is kept
KeepsTargetAnyLength(cur, g, t, navt, navn) ==
    /\ navt # None
    /\ EndsWith(t, <<EVENT_FLAG_NAVIGATE>>)
    /\ 0 < BfsDistance(g, cur, navt)

KeepsTarget(cur, g, t, navt, navn) ==
    /\ navt # None
    /\ EndsWith(t, <<EVENT_FLAG_NAVIGATE>>)
    /\ 0 < BfsDistance(g, cur, navt)
    /\ BfsDistance(g, cur, navt) <= navn

\* __get_nav_target: the missed set after the check of the previous target
MissedAfterCheck(cur, g, t, navt, navn, missed) ==
    IF navt # None /\ EndsWith(t, <<EVENT_FLAG_NAVIGATE>>) /\ ~KeepsTarget(cur, g, t, navt, navn)
    THEN missed \cup {navt}
    ELSE missed

\* __get_nav_target: the states the for loop can return
NavCandidates(cur, g, missed) ==
    {s \in GetReachableStates(g, cur) :
        /\ Depth(s) = 0
        /\ s \notin missed
        /\ ~IsStateExplored(g, s)
        /\ BfsDistance(g, cur, s) > 0}

\* __get_nav_target(current_state): the results it can have, with the fields after it
GetNavTarget(cur, g, t, navt, navn, missed) ==
    IF KeepsTarget(cur, g, t, navt, navn)
    THEN {[target |-> navt, num |-> BfsDistance(g, cur, navt), missed |-> missed]}
    ELSE LET m == MissedAfterCheck(cur, g, t, navt, navn, missed)
             cands == NavCandidates(cur, g, m)
         IN  IF cands = {} THEN {[target |-> None, num |-> -1, missed |-> m]}
             ELSE {[target |-> s, num |-> BfsDistance(g, cur, s), missed |-> m] : s \in cands}

\* the event taken from the navigation steps
NavigationEventLast(steps) == steps[Len(steps)][2]

NavigationEvent(steps) == steps[1][2]

\* the event selection of UtgGreedySearchPolicy.generate_event_based_on_utg once the
\* unexplored-first rule found nothing: its possible results
SelectByNavigation(cur, g, pe, t, navt, navn, missed, random) ==
    UNION {
      IF nt.target # None
      THEN {[ret |-> NavigationEvent(steps), rule |-> "navigate", path |-> steps,
             trace |-> TraceAppend(t, EVENT_FLAG_NAVIGATE),
             nav_target |-> nt.target, nav_num_steps |-> nt.num, missed |-> nt.missed] :
            steps \in NavigationSteps(g, cur, nt.target)}
      ELSE IF random
      THEN {[ret |-> pe[i], rule |-> "random", path |-> <<>>, trace |-> t,
             nav_target |-> nt.target, nav_num_steps |-> nt.num, missed |-> nt.missed] :
            i \in DOMAIN pe}
      ELSE {[ret |-> StopIntent, rule |-> "stop", path |-> <<>>,
             trace |-> TraceAppend(t, EVENT_FLAG_STOP_APP),
             nav_target |-> nt.target, nav_num_steps |-> nt.num, missed |-> nt.missed]} :
      nt \in GetNavTarget(cur, g, t, navt, navn, missed)}

\* the unexplored-first rule, then navigation: the possible results of the selection
SelectNavigationFirst(cur, g, pe, t, navt, navn, missed, random) ==
    SelectByNavigation(cur, g, pe, t, navt, navn, missed, random)

SelectEvent(cur, g, pe, t, navt, navn, missed, random) ==
    IF FirstUnexplored(g, pe, cur) # 0
    THEN {[ret |-> pe[FirstUnexplored(g, pe, cur)], rule |-> "explore", path |-> <<>>,
           trace |-> TraceAppend(t, EVENT_FLAG_EXPLORE),
           nav_target |-> navt, nav_num_steps |-> navn, missed |-> missed]}
    ELSE SelectByNavigation(cur, g, pe, t, navt, navn, missed, random)

\* UtgGreedySearchPolicy.generate_event_based_on_utg on the screen s with the
\* transitions g in self.utg: the policy's private fields after it and what it returns
GreedyCall(s, g) ==
    LET rec == Recovery(s, event_trace, num_restarts, num_steps_outside, random_explore)
        missed == missed_states \ {s}
    IN  /\ num_restarts' = rec.restarts
        /\ num_steps_outside' = rec.outside
        /\ random_explore' = rec.random
        /\ IF rec.ret # None
           THEN /\ returned' = rec.ret
                /\ rule' = rec.rule
                /\ nav_path' = <<>>
                /\ event_trace' = rec.trace
                /\ missed_states' = missed
                /\ UNCHANGED <<nav_target, nav_num_steps>>
           ELSE \E pe \in PossibleEventLists(s, random_input, search_method) :
                \E sel \in SelectEvent(s, g, pe, rec.trace, nav_target, nav_num_steps,
                                       missed, rec.random) :
                   /\ returned' = sel.ret
                   /\ rule' = sel.rule
                   /\ nav_path' = sel.path
                   /\ event_trace' = sel.trace
                   /\ nav_target' = sel.nav_target
                   /\ nav_num_steps' = sel.nav_num_steps
                   /\ missed_states' = sel.missed

\* one call of UtgGreedySearchPolicy.generate_event_based_on_utg on the screen s that
\* UtgBasedInputPolicy.generate_event has just read into current_state
GreedyPoll(s) ==
    /\ policy = "greedy"
    /\ calls < call_budget
    /\ s \in avail
    /\ current_state' = s
    /\ calls' = calls + 1
    /\ GreedyCall(s, utg)
    /\ UNCHANGED <<random_input, search_method, utg, last_state, last_event>>
    /\ UNCHANGED <<loopVars, envVars, naiveVars, taskVars, replayVars,
                   adapterVars>>

\* UtgBasedInputPolicy.generate_event as InputPolicy.start calls it on the greedy
\* policy: generate_event_based_on_utg returns one event, not a pair, so the assignment
\* `old_state, event = ...` raises TypeError after the method has chosen its event, and
\* last_state and last_event are not assigned
GreedyGenerate ==
    /\ pc = "generate"
    /\ policy = "greedy"
    /\ current_state' = dev
    /\ IF dev = None
       THEN /\ Returned(BACK)
            /\ returned' = BACK
            /\ rule' = "unavailable"
            /\ UNCHANGED <<utg, nav_target, nav_num_steps, num_restarts, num_steps_outside,
                           event_trace, missed_states, random_explore, nav_path, calls>>
       ELSE /\ calls' = calls + 1
            /\ \E g \in {AddTransition(utg, last_event, last_state, dev)} :
                  /\ utg' = g
                  /\ GreedyCall(dev, g)
            /\ Raised("Exception", TRUE)
            /\ UNCHANGED <<submitted, first_submitted, last_submitted>>
    /\ UNCHANGED <<random_input, search_method, last_state, last_event>>
    /\ UNCHANGED <<envVars, naiveVars, taskVars, replayVars, adapterVars>>

\* input_manager.add_event(event) in a run of the greedy policy, after which the
\* device shows a screen of its own choosing, and the increment that ends the iteration
GreedyAddEvent ==
    /\ pc = "send"
    /\ policy = "greedy"
    /\ AddEventCounts
    /\ action_count' = action_count + 1
    /\ pc' = "loop"
    /\ pending' = None
    /\ dev' \in avail
    /\ dev_received' = dev_received + 1
    /\ UNCHANGED <<policy, stop_cause, enabled, event_count, master, faults,
                   gen_calls, gen_before_first>>
    /\ UNCHANGED <<layout, direct_sent, action_history, thought_history, journal, flat,
                   notes, answers, answer, text>>
    /\ UNCHANGED <<utgVars, envVars, naiveVars, replayVars, adapterVars>>

\* the transitions a caller of UTG.add_transition records, one call at a time
EdgePool ==
    {<<"A", "a1", "B">>, <<"A", "a2", "A">>, <<"A", BACK, "A">>, <<"A", BACK, "C">>,
     <<"B", "b1", "C">>, <<"B", BACK, "A">>, <<"C", BACK, "A">>}

\* the transitions recorded while the app cannot be started
LauncherPool == {<<"H", "h1", "H">>, <<"H", BACK, "H">>, <<"H", StopIntent, "H">>}

UtgAddTransition ==
    /\ policy = "greedy"
    /\ \E tr \in pool \ utg :
          utg' = AddTransition(utg, tr[2], tr[1], tr[3])
    /\ UNCHANGED <<random_input, search_method, current_state, nav_target, nav_num_steps,
                   num_restarts, num_steps_outside, event_trace, missed_states,
                   random_explore, returned, rule, nav_path, calls, last_state, last_event>>
    /\ UNCHANGED <<loopVars, envVars, naiveVars, taskVars, replayVars,
                   adapterVars>>

\* the screens the device can show after it was sent event e on screen s: the app of
\* the greedy runs.  Its second screen sometimes falls back to the first, another
\* app can come up on top of the third, which then shows a new screen of its own
\* after each event and gives way to the app's first screen after the last of them,
\* and once the app was stopped from one of its own screens the launcher stays
World(s, e) ==
    IF s = "H" THEN {"H"}
    ELSE IF s \in OutsideScreens
    THEN (IF OutsideIndex(s) <= MAX_NUM_STEPS_OUTSIDE
          THEN {OutsideScreen(OutsideIndex(s) + 1)}
          ELSE {"A"})
    ELSE IF s = "O" THEN {"O"}
    ELSE IF e = StopIntent THEN {"H"}
    ELSE IF e = StartIntent THEN {s}
    ELSE IF s = "A" THEN (IF e = "a1" THEN {"B"} ELSE {"A"})
    ELSE IF s = "B" THEN (IF e = "b1" THEN {"C", "A"} ELSE {"A"})
    ELSE IF e = "c1" THEN {"C"}
    ELSE {"A", OutsideScreen(1)}

\* UtgBasedInputPolicy.generate_event on the screen the device shows, with the greedy
\* policy's generate_event_based_on_utg called the way the base class means to call
\* it, and the event then sent to the device
GreedyStep ==
    /\ policy = "greedy"
    /\ dev # None
    /\ calls < call_budget
    /\ current_state' = dev
    /\ calls' = calls + 1
    /\ \E g \in {AddTransition(utg, last_event, last_state, dev)} :
          /\ utg' = g
          /\ GreedyCall(dev, g)
    /\ last_state' = dev
    /\ last_event' = returned'
    /\ dev' \in World(dev, returned')
    /\ dev_received' = dev_received + 1
    /\ UNCHANGED <<random_input, search_method>>
    /\ UNCHANGED <<layout, direct_sent, action_history, thought_history, journal, flat,
                   notes, answers, answer, text>>
    /\ UNCHANGED <<loopVars, envVars, naiveVars, replayVars, adapterVars>>

\* an app whose first screen does not always react to a1: the event leads to the
\* second screen or leaves the first one showing.  The app starts from the launcher.
FlakyWorld(s, e) ==
    IF e = StopIntent THEN {"H"}
    ELSE IF e = StartIntent THEN (IF s = "H" THEN {"A"} ELSE {s})
    ELSE IF s = "H" THEN {"H"}
    ELSE IF s = "A" /\ e = "a1" THEN {"A", "B"}
    ELSE IF s = "B" /\ e = "b1" THEN {"B"}
    ELSE {"A"}

\* UtgBasedInputPolicy.generate_event on the screen the device shows, as in GreedyStep,
\* in a run of any length: the counters of the model stop at RunCalls
GreedyNavGenerate ==
    /\ pc = "generate"
    /\ policy = "greedy"
    /\ dev # None
    /\ current_state' = dev
    /\ calls' = Counted(calls, RunCalls)
    /\ \E g \in {AddTransition(utg, last_event, last_state, dev)} :
          /\ utg' = g
          /\ GreedyCall(dev, g)
    /\ last_state' = dev
    /\ last_event' = returned'
    /\ pending' = returned'
    /\ pc' = "send"
    /\ UNCHANGED <<random_input, search_method>>
    /\ UNCHANGED <<policy, stop_cause, enabled, event_count, action_count, master, faults,
                   submitted, first_submitted, last_submitted, gen_calls, gen_before_first>>
    /\ UNCHANGED <<envVars, naiveVars, taskVars, replayVars, adapterVars>>

\* the event is sent and the app of FlakyWorld shows its next screen
GreedyNavSend ==
    /\ pc = "send"
    /\ policy = "greedy"
    /\ dev' \in FlakyWorld(dev, pending)
    /\ dev_received' = Counted(dev_received, RunCalls)
    /\ last_submitted' = pending
    /\ pending' = None
    /\ pc' = "generate"
    /\ UNCHANGED <<policy, stop_cause, enabled, event_count, action_count, master, faults,
                   submitted, first_submitted, gen_calls, gen_before_first>>
    /\ UNCHANGED <<layout, direct_sent, action_history, thought_history, journal, flat,
                   notes, answers, answer, text>>
    /\ UNCHANGED <<utgVars, envVars, naiveVars, replayVars, adapterVars>>

(***************************************************************************)
(* UtgNaiveSearchPolicy.  Its method is called here the way the base       *)
(* class means to call it: current_state is the screen just read, and      *)
(* last_state the screen of the call before.                               *)
(***************************************************************************)

InputInterruptedException == "InputInterruptedException"

preferred_buttons == {"yes", "ok", "activate", "detail", "more", "access",
                      "allow", "check", "agree", "try", "go", "next"}

\* state.foreground_activity
ForegroundActivity(s) == IF s \in {"A", "B"} THEN "Main" ELSE s

\* the text of a view, already lower-cased and stripped
ViewText(v) ==
    CASE v = "a1" -> "next"
      [] v = "h1" -> "ok"
      [] OTHER -> ""

MockViewBack(s) == "BACK_" \o ForegroundActivity(s)

IsBackView(v) == v \in {MockViewBack(s) : s \in States}

\* device.is_foreground(app)
IsForeground(s) == Depth(s) = 0

\* the first element of a sequence satisfying a test, or None
RECURSIVE FirstIn(_, _)
FirstIn(seq, good) ==
    IF seq = <<>> THEN None
    ELSE IF Head(seq) \in good THEN Head(seq)
    ELSE FirstIn(Tail(seq), good)

\* save_state_transition
SaveStateTransition(trs, event_str, old, new) ==
    IF event_str = None \/ old = None \/ new = None THEN trs
    ELSE IF new # old THEN trs \cup {<<event_str, old, new>>}
    ELSE trs

\* select_a_view, for one order of the enabled leaf views and one order of
\* the second shuffle
SelectAView(s, views, reshuffled, explored, trs) ==
    LET unexplored == {v \in Range(views) : <<ForegroundActivity(s), v>> \notin explored}
        preferred == {v \in unexplored : ViewText(v) \in preferred_buttons}
        transition_views == {tr[1] : tr \in trs}
    IN  IF FirstIn(views, preferred) # None THEN FirstIn(views, preferred)
        ELSE IF FirstIn(views, unexplored) # None THEN FirstIn(views, unexplored)
        ELSE FirstIn(reshuffled, transition_views)

\* the view lists select_a_view can work on
WithBack(s, views) ==
    IF search_method = POLICY_NAIVE_DFS THEN Append(views, MockViewBack(s))
    ELSE IF search_method = POLICY_NAIVE_BFS THEN <<MockViewBack(s)>> \o views
    ELSE views

ViewLists(s) ==
    IF random_input THEN {WithBack(s, o) : o \in Shuffles(Offered(s))}
    ELSE {WithBack(s, Offered(s))}

Reshuffles(views) == IF random_input THEN Shuffles(views) ELSE {views}

\* the start branch raises once the flags hold more than MAX_NUM_RESTARTS starts
TooManyStartsAtLeast(n) == n >= MAX_NUM_RESTARTS

TooManyStarts(n) == n > MAX_NUM_RESTARTS

NaiveFlag(flag, f) ==
    [starts |-> IF f = EVENT_FLAG_START_APP THEN flag.starts + 1 ELSE flag.starts,
     last |-> f]

\* the outcome of the part of the method from select_a_view on
NaiveSelect(s, flag, trs) ==
    \E views \in ViewLists(s) : \E re \in Reshuffles(views) :
        LET view_to_touch == SelectAView(s, views, re, explored_views, trs)
        IN  IF view_to_touch = None
            THEN /\ returned' = StopIntent
                 /\ last_event_flag' = NaiveFlag(flag, EVENT_FLAG_STOP_APP)
                 /\ last_event_str' = EVENT_FLAG_STOP_APP
                 /\ explored_views' = explored_views
            ELSE /\ returned' = IF IsBackView(view_to_touch) THEN BACK ELSE view_to_touch
                 /\ last_event_flag' = NaiveFlag(flag, EVENT_FLAG_TOUCH)
                 /\ last_event_str' = view_to_touch
                 /\ explored_views' =
                        explored_views \cup {<<ForegroundActivity(s), view_to_touch>>}

\* UtgNaiveSearchPolicy.generate_event_based_on_utg
NaivePoll(s) ==
    /\ policy = "naive"
    /\ calls < call_budget
    /\ s \in avail
    /\ returned # InputInterruptedException
    /\ calls' = calls + 1
    /\ current_state' = s
    /\ last_state' = s
    /\ LET trs == SaveStateTransition(state_transitions, last_event_str, last_state, s)
       IN  /\ state_transitions' = trs
           /\ IF IsForeground(s)
              THEN /\ rule' = "foreground"
                   /\ NaiveSelect(s, [starts |-> 0, last |-> EVENT_FLAG_STARTED], trs)
              ELSE IF TooManyStarts(last_event_flag.starts)
              THEN /\ rule' = "raise"
                   /\ returned' = InputInterruptedException
                   /\ UNCHANGED <<last_event_flag, last_event_str, explored_views>>
              ELSE IF last_event_flag.last = EVENT_FLAG_START_APP
              THEN /\ rule' = "pass"
                   /\ NaiveSelect(s, last_event_flag, trs)
              ELSE /\ rule' = "start"
                   /\ returned' = StartIntent
                   /\ last_event_flag' = NaiveFlag(last_event_flag, EVENT_FLAG_START_APP)
                   /\ last_event_str' = EVENT_FLAG_START_APP
                   /\ UNCHANGED explored_views
    /\ UNCHANGED <<random_input, search_method, utg, nav_target, nav_num_steps,
                   num_restarts, num_steps_outside, event_trace, missed_states,
                   random_explore, nav_path, last_event>>
    /\ UNCHANGED <<loopVars, envVars, taskVars, replayVars,
                   adapterVars>>


(***************************************************************************)
(* The device as TaskPolicy sees it.  A screen with a scrollable region is  *)
(* named by the scroll position of the region, "L0" the top; a scroll event *)
(* moves the region one position, and stays where it is at either end.      *)
(***************************************************************************)

ScrollUp == "UP"
ScrollDown == "DOWN"

ListState(p) == "L" \o ToString(p)

\* the layouts a scrollable region can have: the views shown at each position
LayoutFlat == <<<<"v1", "v2">>>>

LayoutShort == <<<<"v1", "v2">>, <<"v2", "v3">>, <<"v3", "v4">>, <<"v4", "v5">>>>

LayoutMixed ==
    <<<<"v1", "v2">>, <<"v2", "v3">>, <<"v4", "v5">>, <<"v5", "v6">>, <<"v7", "v8">>>>

LayoutLong ==
    [p \in 1..(MAX_SCROLL_NUM + 2) |->
        <<"w" \o ToString(2 * p - 1), "w" \o ToString(2 * p)>>]

Layouts == {LayoutFlat, LayoutShort, LayoutMixed, LayoutLong}

ListStates == {ListState(p) : p \in 0..(MAX_SCROLL_NUM + 1)}

PosOf(s) == CHOOSE p \in 0..(MAX_SCROLL_NUM + 1) : s = ListState(p)

\* DeviceState.get_scrollable_views() is not empty
IsScrollable(s) == s \in ListStates

\* the screen after device.send_event(ScrollEvent(direction))
ScrollTo(lay, s, dir) ==
    IF ~IsScrollable(s) THEN s
    ELSE IF dir = ScrollDown
    THEN ListState(IF PosOf(s) + 1 < Len(lay) THEN PosOf(s) + 1 ELSE Len(lay) - 1)
    ELSE ListState(IF PosOf(s) > 0 THEN PosOf(s) - 1 ELSE 0)

\* the views of DeviceState.get_described_actions(); the candidate action of a view
\* is the touch event that carries the view's name
ViewsOf(lay, s) ==
    IF IsScrollable(s)
    THEN (IF PosOf(s) < Len(lay) THEN lay[PosOf(s) + 1] ELSE lay[Len(lay)])
    ELSE Offered(s)

\* the screen after the device received the events of evs, one after the other
RECURSIVE SendAll(_, _, _)
SendAll(lay, s, evs) ==
    IF evs = <<>> THEN s ELSE SendAll(lay, ScrollTo(lay, s, Head(evs)), Tail(evs))

(***************************************************************************)
(* TaskPolicy: flattening of a scrollable region                           *)
(***************************************************************************)

\* the views of a scrolled screen that are not in the list yet, in order
RECURSIVE NewViews(_, _)
NewViews(seen, views) ==
    IF views = <<>> THEN <<>>
    ELSE IF Head(views) \in seen THEN NewViews(seen, Tail(views))
    ELSE <<Head(views)>> \o NewViews(seen \cup {Head(views)}, Tail(views))

\* the for loop of _scroll_to_top from iteration n on
RECURSIVE ScrollUpLoopUncapped(_, _, _)
ScrollUpLoopUncapped(lay, n, st) ==
    LET scrolled == ScrollTo(lay, st.dev, ScrollUp)
        new == NewViews(Range(st.mark), ViewsOf(lay, scrolled))
        sent == [st EXCEPT !.dev = scrolled,
                           !.sent = @ + 1,
                           !.g = AddTransition(@, ScrollUp, st.old, scrolled),
                           !.old = scrolled,
                           !.mark = @ \o new]
    IN  IF new = <<>> THEN sent
        ELSE ScrollUpLoopUncapped(lay, n + 1, [sent EXCEPT !.prefix = Append(@, ScrollUp)])

RECURSIVE ScrollUpLoop(_, _, _)
ScrollUpLoop(lay, n, st) ==
    IF n = MAX_SCROLL_NUM THEN st
    ELSE LET scrolled == ScrollTo(lay, st.dev, ScrollUp)
             new == NewViews(Range(st.mark), ViewsOf(lay, scrolled))
             sent == [st EXCEPT !.dev = scrolled,
                                !.sent = @ + 1,
                                !.g = AddTransition(@, ScrollUp, st.old, scrolled),
                                !.old = scrolled,
                                !.mark = @ \o new]
         IN  IF new = <<>> THEN sent
             ELSE ScrollUpLoop(lay, n + 1, [sent EXCEPT !.prefix = Append(@, ScrollUp)])

\* TaskPolicy._scroll_to_top(scroller, all_views_for_mark, old_state)
ScrollToTopSkipped(lay, d, mark, old, g) ==
    [dev |-> d, old |-> old, mark |-> mark, prefix |-> <<>>, sent |-> 0, g |-> g]

ScrollToTop(lay, d, mark, old, g) ==
    ScrollUpLoop(lay, 0, [dev |-> d, old |-> old, mark |-> mark, prefix |-> <<>>,
                          sent |-> 0, g |-> g])

\* the downward for loop of generate_event_based_on_utg from iteration n on
RECURSIVE ScrollDownLoop(_, _, _)
ScrollDownLoop(lay, n, st) ==
    IF n = MAX_SCROLL_NUM THEN st
    ELSE LET scrolled == ScrollTo(lay, st.dev, ScrollDown)
             new == NewViews(Range(st.views), ViewsOf(lay, scrolled))
             few == IF Len(new) < 2 THEN st.too_few + 1 ELSE st.too_few
             sent == [st EXCEPT !.strs = Append(@, st.top),
                                !.dev = scrolled,
                                !.sent = @ + 1,
                                !.news = Append(@, Len(new)),
                                !.views = @ \o new,
                                !.actions = @ \o [i \in DOMAIN new |->
                                                   st.prefix \o <<ScrollDown, new[i]>>]]
             more == [sent EXCEPT !.prefix = Append(@, ScrollDown), !.too_few = few]
         IN  IF new = <<>> THEN sent
             ELSE IF few >= 2 THEN more
             ELSE ScrollDownLoop(lay, n + 1,
                     [more EXCEPT !.g = AddTransition(@, ScrollDown, st.top, scrolled),
                                  !.top = scrolled])

\* the elements of seq at the positions of keep, in order
SubsequenceAt(seq, keep) ==
    LET F[i \in 0..Len(seq)] ==
            IF i = 0 THEN <<>>
            ELSE IF i \in keep THEN Append(F[i - 1], seq[i])
            ELSE F[i - 1]
    IN  F[Len(seq)]

\* the positions of the views that whole_state_views does not hold yet
FirstOccurrences(views) ==
    {i \in DOMAIN views : \A j \in 1..(i - 1) : views[j] # views[i]}

\* the body of `for scrollerid in range(len(scrollable_views))` for the region of the
\* screen: up to the top, down to the bottom, and up again
Flatten(lay, cur, g) ==
    LET up1 == ScrollToTop(lay, cur, ViewsOf(lay, cur), cur, g)
        top_views == ViewsOf(lay, up1.dev)
        down == ScrollDownLoop(lay, 0,
                    [dev |-> up1.dev, top |-> up1.dev, views |-> top_views,
                     actions |-> [i \in DOMAIN top_views |-> <<top_views[i]>>],
                     prefix |-> up1.prefix, too_few |-> 0, strs |-> <<>>,
                     sent |-> 0, news |-> <<>>, g |-> up1.g])
        up2 == ScrollToTop(lay, down.dev, <<>>, down.top, down.g)
    IN  [views |-> SubsequenceAt(down.views, FirstOccurrences(down.views)),
         actions |-> SubsequenceAt(down.actions, FirstOccurrences(down.views)),
         strs |-> down.strs, dev |-> up2.dev, g |-> up2.g,
         ups1 |-> up1.sent, downs |-> down.sent, ups2 |-> up2.sent, top |-> up1.dev,
         news |-> down.news]

\* the views and actions of a screen without a scrollable region
Unscrolled(lay, cur, g) ==
    [views |-> ViewsOf(lay, cur),
     actions |-> [i \in DOMAIN ViewsOf(lay, cur) |-> <<ViewsOf(lay, cur)[i]>>],
     strs |-> <<cur>>, dev |-> cur, g |-> g,
     ups1 |-> 0, downs |-> 0, ups2 |-> 0, top |-> cur, news |-> <<>>]

(***************************************************************************)
(* TaskPolicy: the authentication shortcut.  A screen's description is a    *)
(* sequence of lines, one per candidate action; a line is an input element  *)
(* or not, and contains some of the words the code looks for.  The         *)
(* candidate action of an input line is a SetTextEvent.                    *)
(***************************************************************************)

\* screens of the app that ask the user to authenticate: a PIN field with a button, a
\* password field with a login button and a "use PIN instead" button, a
\* verification-code field with a button, and a login button alone
AuthStates == {"P", "W", "V", "N"}

\* the lines of state_prompt for a screen
Lines(s) ==
    IF s = "P" THEN <<[input |-> TRUE, words |-> {"pin"}],
                      [input |-> FALSE, words |-> {"login"}]>>
    ELSE IF s = "W" THEN <<[input |-> TRUE, words |-> {"password", "pass"}],
                           [input |-> FALSE, words |-> {"login"}],
                           [input |-> FALSE, words |-> {"pin"}]>>
    ELSE IF s = "V" THEN <<[input |-> TRUE, words |-> {"verification", "code"}],
                           [input |-> FALSE, words |-> {}]>>
    ELSE IF s = "N" THEN <<[input |-> FALSE, words |-> {"login"}]>>
    ELSE [i \in DOMAIN Offered(s) |-> [input |-> FALSE, words |-> {}]]

auth_keywords ==
    {"login", "sign in", "sign up", "register", "pin", "password", "username", "email",
     "phone number", "verification", "code", "digit pass", "authenticate", "security",
     "access", "identity", "authorized", "unlock", "protect"}

\* _is_authentication_screen(state_prompt)
IsAuthenticationScreen(lines) ==
    \/ \E i \in DOMAIN lines : lines[i].words \cap auth_keywords # {}
    \/ /\ \E i \in DOMAIN lines : lines[i].input
       /\ \E i \in DOMAIN lines :
             lines[i].words \cap {"secure", "protect", "privacy", "sensitive"} # {}

\* the default PIN of the shortcut
DefaultPin == "1234"

\* what config["app_notes"] can hold: the value each credential pattern finds in the
\* notes and the first standalone 4-digit number, None where there is none
NoNotes == [pin |-> None, password |-> None, digits |-> None]
PinNotes == [pin |-> "4821", password |-> None, digits |-> "4821"]
PasswordNotes == [pin |-> None, password |-> "hunter2", digits |-> None]
DigitNotes == [pin |-> None, password |-> "hunter2", digits |-> "2024"]
NotesChoices == {NoNotes, PinNotes, PasswordNotes, DigitNotes}

\* the credentials the patterns of _extract_credentials_from_notes find, in the order
\* of credential_patterns
PatternCredentials(n) ==
    (IF n.pin # None THEN <<[kind |-> "pin", value |-> n.pin]>> ELSE <<>>)
    \o (IF n.password # None THEN <<[kind |-> "password", value |-> n.password]>>
        ELSE <<>>)

Kinds(credentials) == {credentials[i].kind : i \in DOMAIN credentials}

\* _extract_credentials_from_notes(None): the dict it returns, in insertion order
ExtractCredentialsFromNotes(n) ==
    LET found == PatternCredentials(n)
        with_digits == IF "pin" \notin Kinds(found) /\ n.digits # None
                       THEN Append(found, [kind |-> "pin", value |-> n.digits])
                       ELSE found
    IN  IF with_digits = <<>> THEN <<[kind |-> "pin", value |-> DefaultPin]>>
        ELSE with_digits

\* the dict of _try_direct_auth_action after line 1286
WithDefaultPin(extracted, has_pin_field) ==
    IF (extracted = <<>> \/ "pin" \notin Kinds(extracted)) /\ has_pin_field
    THEN <<[kind |-> "pin", value |-> DefaultPin]>>
    ELSE extracted

\* _is_input_matching_credential_type
patterns(cred_type) ==
    IF cred_type = "pin" THEN {"digit", "code", "security", "verify", "unlock"}
    ELSE IF cred_type = "password" THEN {"pass", "secret", "secure"}
    ELSE IF cred_type = "username" THEN {"user", "name", "account", "id"}
    ELSE IF cred_type = "email" THEN {"mail", "@", "address"}
    ELSE {}

IsInputMatchingCredentialType(line, cred_type) == line.words \cap patterns(cred_type) # {}

\* the least element of a non-empty set of positions
Least(S) == CHOOSE i \in S : \A j \in S : i <= j

\* the credential of the dict a line of the general detection matches first
MatchingCredentials(line, credentials) ==
    {c \in DOMAIN credentials :
        \/ credentials[c].kind \in line.words
        \/ IsInputMatchingCredentialType(line, credentials[c].kind)}

\* the result of _try_direct_auth_action when it returns None
NoAuthAction == [found |-> FALSE, idx |-> 0, cred_type |-> None, text |-> None]

\* _try_direct_auth_action: the position (from 0) of the input line, the kind of
\* credential and the text set on the line's SetTextEvent, when it returns an action
TryDirectAuthAction(lines, n) ==
    LET has_pin_field == /\ \E i \in DOMAIN lines : lines[i].input
                         /\ \E i \in DOMAIN lines : "pin" \in lines[i].words
        credentials == WithDefaultPin(ExtractCredentialsFromNotes(n), has_pin_field)
        pin_lines == {i \in DOMAIN lines :
                        lines[i].input /\ lines[i].words \cap {"pin", "digit"} # {}}
        pin_value == credentials[Least({c \in DOMAIN credentials :
                                            credentials[c].kind = "pin"})].value
        matching == {i \in DOMAIN lines :
                        lines[i].input /\ MatchingCredentials(lines[i], credentials) # {}}
    IN  IF ~IsAuthenticationScreen(lines) \/ credentials = <<>> THEN NoAuthAction
        ELSE IF "pin" \in Kinds(credentials) /\ has_pin_field /\ pin_lines # {}
        THEN [found |-> TRUE, idx |-> Least(pin_lines) - 1, cred_type |-> "pin",
              text |-> pin_value]
        ELSE IF matching # {}
        THEN LET c == credentials[Least(MatchingCredentials(lines[Least(matching)],
                                                            credentials))]
             IN  [found |-> TRUE, idx |-> Least(matching) - 1, cred_type |-> c.kind,
                  text |-> c.value]
        ELSE NoAuthAction

(***************************************************************************)
(* TaskPolicy: the decision and the event of one step                      *)
(***************************************************************************)

\* the indices the decision oracle can answer
OracleAnswers == {-1, 0, 3, 99}

\* _get_action_from_views_actions: the position in candidate_actions that the answer
\* idx selects, 0 when candidate_actions[idx] raises IndexError
SelectedPosition(idx, n) ==
    LET i == IF idx >= n THEN 0 ELSE idx
        pos == IF i >= 0 THEN i + 1 ELSE n + i + 1
    IN  IF pos >= 1 /\ pos <= n THEN pos ELSE 0

\* the index _save2yaml records as Choice
RecordedChoice(idx, n) == IF idx >= n THEN 0 ELSE idx

\* the policy's fields and the device after the call got as far as the oracle
TaskReached(cur, fl) ==
    /\ utg' = fl.g
    /\ dev' = fl.dev
    /\ flat' = IF IsScrollable(cur)
               THEN [ups1 |-> fl.ups1, downs |-> fl.downs, ups2 |-> fl.ups2,
                     top |-> fl.top, end |-> fl.dev, views |-> Len(fl.views),
                     news |-> fl.news, actions |-> fl.actions]
               ELSE flat

\* the indices the decision oracle can answer when it answers anything
UnreliableAnswers == {-2, -1, 0, 1, 7}

\* the input text the decision oracle can answer
OracleTexts == {"N/A", "abc"}

\* the text _get_action_from_views_actions sets on a chosen SetTextEvent; the answers
\* have no quote, no space and at most 30 characters
SanitizedText(input_text) == IF input_text = "N/A" THEN "" ELSE input_text

\* the lines of state_prompt: of the screen, or one per flattened view
PromptLines(cur, fl) ==
    IF IsScrollable(cur) THEN [i \in DOMAIN fl.views |-> [input |-> FALSE, words |-> {}]]
    ELSE Lines(cur)

\* `if auth_result is not None`, line 1217
ShortcutReturnsAlways(auth) == TRUE

ShortcutReturns(auth) == auth.found

\* the return of the authentication shortcut, lines 1213-1220
TaskShortcut(cur, fl, auth) ==
    LET event == fl.actions[auth.idx + 1][1]
    IN  /\ TaskReached(cur, fl)
        /\ dev_received' = dev_received + fl.ups1 + fl.downs + fl.ups2
        /\ direct_sent' = direct_sent + fl.ups1 + fl.downs + fl.ups2
        /\ answer' = <<>>
        /\ text' = auth.text
        /\ action_history' = Append(action_history, event)
        /\ thought_history' = Append(thought_history, auth.cred_type)
        /\ returned' = event
        /\ rule' = "auth"
        /\ last_state' = cur
        /\ last_event' = event
        /\ UNCHANGED journal
        /\ Returned(event)

\* the call raises: the oracle fails, or candidate_actions[idx] raises IndexError
TaskRaises(cur, fl, why, answered) ==
    /\ TaskReached(cur, fl)
    /\ returned' = "Exception"
    /\ rule' = why
    /\ answer' = answered
    /\ text' = None
    /\ dev_received' = dev_received + fl.ups1 + fl.downs + fl.ups2
    /\ direct_sent' = direct_sent + fl.ups1 + fl.downs + fl.ups2
    /\ UNCHANGED <<last_state, last_event, action_history, thought_history, journal>>
    /\ Raised("Exception", TRUE)
    /\ UNCHANGED <<submitted, first_submitted, last_submitted>>

\* generate_event_based_on_utg past the recovery branches: flattening, the shortcut,
\* the oracle's answer and the event returned for it
TaskChoose(cur, g) ==
    \E fl \in {IF IsScrollable(cur) THEN Flatten(layout, cur, g)
                ELSE Unscrolled(layout, cur, g)} :
    \E auth \in {TryDirectAuthAction(PromptLines(cur, fl), notes)} :
    LET swept == fl.ups1 + fl.downs + fl.ups2
        n == Len(fl.actions)
        lines == PromptLines(cur, fl)
    IN  IF ShortcutReturns(auth) /\ auth.idx < n
        THEN TaskShortcut(cur, fl, auth)
        ELSE
        \/ /\ n > 0
           /\ \E idx \in answers :
                IF idx = -1
                THEN /\ TaskReached(cur, fl)
                     /\ returned' = FINISHED
                     /\ rule' = "finished"
                     /\ answer' = <<idx>>
                     /\ text' = None
                     /\ last_state' = cur
                     /\ last_event' = FINISHED
                     /\ dev_received' = dev_received + swept
                     /\ direct_sent' = direct_sent + swept
                     /\ UNCHANGED <<action_history, thought_history, journal>>
                     /\ Returned(FINISHED)
                ELSE IF SelectedPosition(idx, n) = 0
                THEN TaskRaises(cur, fl, "index_error", <<idx>>)
                ELSE LET action == fl.actions[SelectedPosition(idx, n)]
                         before == SubSeq(action, 1, Len(action) - 1)
                         event == action[Len(action)]
                         is_text == lines[SelectedPosition(idx, n)].input
                     IN  \E input_text \in IF is_text THEN OracleTexts ELSE {"N/A"} :
                         /\ utg' = fl.g
                         /\ flat' = IF IsScrollable(cur)
                                    THEN [ups1 |-> fl.ups1, downs |-> fl.downs,
                                          ups2 |-> fl.ups2, top |-> fl.top,
                                          end |-> fl.dev, views |-> Len(fl.views),
                                          news |-> fl.news, actions |-> fl.actions]
                                    ELSE flat
                         /\ dev' = SendAll(layout, fl.dev, before)
                         /\ dev_received' = dev_received + swept + Len(before)
                         /\ direct_sent' = direct_sent + swept + Len(before)
                         /\ answer' = <<idx>>
                         /\ text' = IF is_text THEN SanitizedText(input_text) ELSE None
                         /\ journal' = Append(journal,
                                [state |-> fl.strs,
                                 choice |-> RecordedChoice(idx, n),
                                 input |-> IF is_text THEN SanitizedText(input_text)
                                           ELSE "null"])
                         /\ action_history' = Append(action_history, event)
                         /\ thought_history' = Append(thought_history, "")
                         /\ returned' = event
                         /\ rule' = "oracle"
                         /\ last_state' = IF Len(action) > 1
                                          THEN SendAll(layout, fl.dev, before)
                                          ELSE cur
                         /\ last_event' = event
                         /\ Returned(event)
        \/ TaskRaises(cur, fl, IF n = 0 THEN "no_candidate" ELSE "oracle_failed", <<>>)

\* the return of a recovery branch of generate_event_based_on_utg
TaskRecovered(cur, g, rec) ==
    /\ utg' = g
    /\ returned' = rec.ret
    /\ rule' = rec.rule
    /\ last_state' = cur
    /\ last_event' = rec.ret
    /\ action_history' = IF rec.rule = "start" THEN <<"launchApp">>
                         ELSE Append(action_history, "go back")
    /\ thought_history' = IF rec.rule = "start" THEN <<"launch the app">>
                          ELSE Append(thought_history, "try to go back")
    /\ answer' = <<>>
    /\ text' = None
    /\ UNCHANGED <<dev, dev_received, direct_sent, journal, flat>>
    /\ Returned(rec.ret)

\* the names bound in the body of TaskPolicyAdapter._state_callback: its parameters
CallbackNames == {"self", "state"}

\* the bare names the arguments of AutoDroidTaskPolicy(device=device, app=app, ...)
\* read in that body
ConstructorNames == {"device", "app"}

\* the try block of _state_callback: the TaskPolicy it would store in self.task_policy
\* when the names are bound; an unbound name raises NameError, which the
\* `except Exception` of the block logs, leaving self.task_policy as it was
StateCallbackPolicy(tp) ==
    IF ConstructorNames \subseteq CallbackNames THEN tp + 1 ELSE tp

\* UtgBasedInputPolicy.generate_event with TaskPolicy.generate_event_based_on_utg
TaskGenerate ==
    /\ pc = "generate"
    /\ policy = "task"
    /\ current_state' = dev
    /\ IF dev = None
       THEN /\ Returned(BACK)
            /\ UNCHANGED <<utg, num_restarts, num_steps_outside, event_trace, missed_states,
                           random_explore, returned, rule, calls, last_state, last_event>>
            /\ UNCHANGED taskVars
       ELSE LET rec == Recovery(dev, event_trace, num_restarts, num_steps_outside,
                                random_explore)
                g == AddTransition(utg, last_event, last_state, dev)
            IN  /\ calls' = calls + 1
                /\ missed_states' = missed_states \ {dev}
                /\ num_restarts' = rec.restarts
                /\ num_steps_outside' = rec.outside
                /\ random_explore' = rec.random
                /\ event_trace' = rec.trace
                /\ IF rec.ret # None THEN TaskRecovered(dev, g, rec) ELSE TaskChoose(dev, g)
                /\ UNCHANGED <<layout, notes, answers>>
    /\ UNCHANGED <<random_input, search_method, nav_target, nav_num_steps, nav_path>>
    /\ unique_screens' = IF "adapter" \in state_callbacks /\ dev # None
                         THEN unique_screens \cup {dev}
                         ELSE unique_screens
    /\ task_policy' = IF "adapter" \in state_callbacks /\ dev # None
                      THEN StateCallbackPolicy(task_policy)
                      ELSE task_policy
    /\ UNCHANGED <<state_callbacks, unique_screens_limit, memoryVars>>
    /\ UNCHANGED <<envVars, naiveVars, replayVars>>

\* input_manager.add_event(event), after which the device shows a screen of its own
\* choosing, and the increment that ends the iteration
\* the latest k entries of a list
Latest(q, k) == IF Len(q) <= k THEN q ELSE SubSeq(q, Len(q) - k + 1, Len(q))

\* _get_action_from_views_actions on an authentication screen: what the call can
\* return or raise, with the entries it adds to the histories and the journal
AuthOutcomes(cur, fl, auth, oracle) ==
    LET n == Len(fl.actions)
        lines == PromptLines(cur, fl)
    IN  IF ShortcutReturns(auth) /\ auth.idx < n
        THEN {[ret |-> fl.actions[auth.idx + 1][1], rule |-> "auth", answer |-> <<>>,
               text |-> auth.text, thought |-> <<auth.cred_type>>, noted |-> <<>>]}
        ELSE {[ret |-> "Exception",
               rule |-> IF n = 0 THEN "no_candidate" ELSE "oracle_failed",
               answer |-> <<>>, text |-> None, thought |-> <<>>, noted |-> <<>>]}
             \cup UNION {
               IF n = 0 THEN {}
               ELSE IF idx = -1
               THEN {[ret |-> FINISHED, rule |-> "finished", answer |-> <<idx>>,
                      text |-> None, thought |-> <<>>, noted |-> <<>>]}
               ELSE IF SelectedPosition(idx, n) = 0
               THEN {[ret |-> "Exception", rule |-> "index_error", answer |-> <<idx>>,
                      text |-> None, thought |-> <<>>, noted |-> <<>>]}
               ELSE {[ret |-> fl.actions[SelectedPosition(idx, n)][1], rule |-> "oracle",
                      answer |-> <<idx>>,
                      text |-> IF lines[SelectedPosition(idx, n)].input
                               THEN SanitizedText(input_text) ELSE None,
                      thought |-> <<"">>,
                      noted |-> <<[state |-> fl.strs,
                                   choice |-> RecordedChoice(idx, n),
                                   input |-> IF lines[SelectedPosition(idx, n)].input
                                             THEN SanitizedText(input_text)
                                             ELSE "null"]>>] :
                     input_text \in IF lines[SelectedPosition(idx, n)].input
                                    THEN OracleTexts ELSE {"N/A"}} :
               idx \in oracle}

\* UtgBasedInputPolicy.generate_event over TaskPolicy on an authentication screen, in
\* a run of any length: the counters of the model stop at AuthSteps and the histories
\* and the journal are kept to their latest HistoryKept entries
TaskAuthGenerate ==
    /\ pc = "generate"
    /\ policy = "task"
    /\ dev \in AuthStates
    /\ current_state' = dev
    /\ calls' = Counted(calls, AuthSteps)
    /\ missed_states' = missed_states \ {dev}
    /\ LET rec == Recovery(dev, event_trace, num_restarts, num_steps_outside,
                           random_explore)
       IN  /\ rec.ret = None
           /\ num_restarts' = rec.restarts
           /\ num_steps_outside' = rec.outside
           /\ random_explore' = rec.random
           /\ event_trace' = rec.trace
    /\ \E fl \in {Unscrolled(layout, dev, AddTransition(utg, last_event, last_state, dev))} :
       \E out \in AuthOutcomes(dev, fl, TryDirectAuthAction(PromptLines(dev, fl), notes),
                               answers) :
          /\ TaskReached(dev, fl)
          /\ returned' = out.ret
          /\ rule' = out.rule
          /\ answer' = out.answer
          /\ text' = out.text
          /\ journal' = Latest(journal \o out.noted, HistoryKept)
          /\ thought_history' = Latest(thought_history \o out.thought, HistoryKept)
          /\ action_history' = IF out.thought = <<>> THEN action_history
                               ELSE Latest(Append(action_history, out.ret), HistoryKept)
          /\ last_state' = IF out.ret = "Exception" THEN last_state ELSE dev
          /\ last_event' = IF out.ret = "Exception" THEN last_event ELSE out.ret
          /\ pending' = IF out.ret = "Exception" THEN None ELSE out.ret
          /\ pc' = IF out.ret = "Exception" THEN OnException("Exception")
                   ELSE LoopDispatch(out.ret)
          /\ stop_cause' = IF out.ret = FINISHED THEN "finished" ELSE stop_cause
          /\ faults' = IF out.ret = "Exception" THEN Counted(faults, MaxFaults) ELSE faults
    /\ gen_calls' = Counted(gen_calls, AuthSteps)
    /\ gen_before_first' = IF submitted = 0 THEN Counted(gen_before_first, AuthSteps)
                           ELSE gen_before_first
    /\ UNCHANGED <<policy, enabled, event_count, action_count, master, submitted,
                   first_submitted, last_submitted>>
    /\ UNCHANGED <<dev_received, direct_sent, layout, notes, answers>>
    /\ UNCHANGED <<random_input, search_method, nav_target, nav_num_steps, nav_path>>
    /\ UNCHANGED <<envVars, naiveVars, replayVars, adapterVars>>

\* input_manager.add_event(event) in such a run, after which the device shows one of
\* its screens, the same one or another; the budget of the run is not reached
TaskAuthAddEvent ==
    /\ pc = "send"
    /\ policy = "task"
    /\ submitted' = Counted(submitted, AuthSteps)
    /\ first_submitted' = IF submitted = 0 THEN pending ELSE first_submitted
    /\ last_submitted' = pending
    /\ action_count' = Counted(action_count, AuthSteps)
    /\ pc' = "loop"
    /\ pending' = None
    /\ dev' \in avail
    /\ dev_received' = Counted(dev_received, AuthSteps)
    /\ UNCHANGED <<policy, stop_cause, enabled, event_count, master, faults,
                   gen_calls, gen_before_first>>
    /\ UNCHANGED <<layout, direct_sent, action_history, thought_history, journal, flat,
                   notes, answers, answer, text>>
    /\ UNCHANGED <<utgVars, envVars, naiveVars, replayVars, adapterVars>>

(***************************************************************************)
(* MemoryAdapter.record_state_visit and the state callbacks of             *)
(* run_droidbot.  A string is the list of its words; a keyword is one      *)
(* word, and it is in a string when it is one of the string's words.       *)
(***************************************************************************)

\* config["critical_sections"]
CriticalSections ==
    <<[name |-> "crisis", keywords |-> <<"Crisis", "Helpline">>],
      [name |-> "profile", keywords |-> <<"c">>]>>

SectionNames == {CriticalSections[i].name : i \in DOMAIN CriticalSections}

\* str.lower() on a word
Lower(w) ==
    CASE w = "Crisis" -> "crisis"
      [] w = "Helpline" -> "helpline"
      [] w = "Main" -> "main"
      [] w = "C" -> "c"
      [] OTHER -> w

LowerAll(q) == [i \in DOMAIN q |-> Lower(q[i])]

Contains(string, word) == \E i \in DOMAIN string : string[i] = word

\* view.__dict__ for the views of a state: text, content_desc and resource_id
ViewDicts(s) ==
    IF s = "A" THEN <<[text |-> <<"Crisis", "line">>, content_desc |-> <<>>,
                       resource_id |-> <<"btn">>]>>
    ELSE IF s = "B" THEN <<[text |-> <<"next">>, content_desc |-> <<"Helpline">>,
                            resource_id |-> <<>>]>>
    ELSE <<[text |-> <<>>, content_desc |-> <<>>, resource_id |-> <<"list">>]>>

\* the state_data of state_callback (with the views) and of
\* state_and_screen_callback (with the screenshot, without the views)
StateData(s) ==
    [activity |-> <<ForegroundActivity(s)>>, views |-> ViewDicts(s), has_views |-> TRUE,
     screenshot |-> ""]

StateAndScreenData(s) ==
    [activity |-> <<ForegroundActivity(s)>>, views |-> <<>>, has_views |-> FALSE,
     screenshot |-> "dest_path"]

\* view_texts of _check_critical_sections
RECURSIVE ViewTexts(_)
ViewTexts(views) ==
    IF views = <<>> THEN <<>>
    ELSE LET v == Head(views)
         IN  (IF v.text # <<>> THEN <<LowerAll(v.text)>> ELSE <<>>)
             \o (IF v.content_desc # <<>> THEN <<LowerAll(v.content_desc)>> ELSE <<>>)
             \o (IF v.resource_id # <<>> THEN <<LowerAll(v.resource_id)>> ELSE <<>>)
             \o ViewTexts(Tail(views))

\* `keyword.lower() in activity or any(keyword.lower() in text for text in view_texts)`
KeywordMatches(keyword, data) ==
    LET texts == IF data.has_views THEN ViewTexts(data.views) ELSE <<>>
    IN  \/ Contains(LowerAll(data.activity), Lower(keyword))
        \/ \E t \in DOMAIN texts : Contains(texts[t], Lower(keyword))

\* _check_critical_sections(state_data): visited_sections and found_elements after it
CheckCriticalSections(sections, data) ==
    LET texts == IF data.has_views THEN ViewTexts(data.views) ELSE <<>>
    IN  [n \in SectionNames |->
           LET sec == CriticalSections[CHOOSE i \in DOMAIN CriticalSections :
                                          CriticalSections[i].name = n]
           IN  IF sections[n].visited THEN sections[n]
               ELSE IF \E k \in DOMAIN sec.keywords : KeywordMatches(sec.keywords[k], data)
               THEN [visited |-> TRUE,
                     found |-> {texts[t] : t \in
                                 {u \in DOMAIN texts :
                                    \E k \in DOMAIN sec.keywords :
                                       Contains(texts[u], Lower(sec.keywords[k]))}}]
               ELSE sections[n]]

\* MemoryAdapter.record_state_visit(state_str, state_data)
RecordStateVisit(s, data) ==
    /\ visited_states' = visited_states \cup {s}
    /\ navigation_history' =
          IF s \notin visited_states
          THEN Append(navigation_history, [state |-> s, activity |-> data.activity,
                                           screenshot |-> data.screenshot])
          ELSE navigation_history
    /\ visited_sections' = IF s \notin visited_states
                           THEN CheckCriticalSections(visited_sections, data)
                           ELSE visited_sections
    /\ memory_transitions' = IF memory_last_state # None /\ memory_last_state # s
                            THEN Append(memory_transitions, <<memory_last_state, s>>)
                            ELSE memory_transitions
    /\ memory_last_state' = s
    /\ exploration_complete' =
          (exploration_complete
           \/ (unique_screens_limit > 0
               /\ Cardinality(visited_states \cup {s}) >= unique_screens_limit))

\* the device observes a state and is about to call the registered callbacks with it
Observe ==
    /\ to_run = {}
    /\ Len(memory_transitions) < MaxTransitions
    /\ \E s \in avail, shot \in BOOLEAN :
          observed' = [state |-> s, screenshot |-> shot]
    /\ to_run' = state_callbacks
    /\ UNCHANGED <<visited_states, visited_sections, navigation_history, memory_transitions,
                   memory_last_state, exploration_complete>>
    /\ UNCHANGED <<state_callbacks, unique_screens, unique_screens_limit, task_policy>>
    /\ UNCHANGED <<loopVars, utgVars, envVars, naiveVars, taskVars, replayVars>>

\* one registered callback runs on the observed state: TaskPolicyAdapter._state_callback,
\* state_and_screen_callback or state_callback
RunCallback ==
    \E cb \in to_run :
       /\ to_run' = to_run \ {cb}
       /\ IF cb = "adapter"
          THEN /\ unique_screens' = unique_screens \cup {observed.state}
               /\ task_policy' = StateCallbackPolicy(task_policy)
               /\ UNCHANGED <<visited_states, visited_sections, navigation_history,
                              memory_transitions, memory_last_state, exploration_complete>>
          ELSE /\ IF cb = "state_callback"
                  THEN RecordStateVisit(observed.state, StateData(observed.state))
                  ELSE IF observed.screenshot
                  THEN RecordStateVisit(observed.state,
                                        StateAndScreenData(observed.state))
                  ELSE UNCHANGED <<visited_states, visited_sections, navigation_history,
                                   memory_transitions, memory_last_state,
                                   exploration_complete>>
               /\ UNCHANGED <<unique_screens, task_policy>>
       /\ UNCHANGED <<observed, state_callbacks, unique_screens_limit>>
       /\ UNCHANGED <<loopVars, utgVars, envVars, naiveVars, taskVars, replayVars>>

TaskAddEvent ==
    /\ pc = "send"
    /\ policy = "task"
    /\ AddEventCounts
    /\ \/ /\ action_count' = action_count + 1
          /\ pc' = "loop"
          /\ pending' = None
          /\ dev' \in avail
          /\ dev_received' = dev_received + 1
          /\ UNCHANGED <<policy, stop_cause, enabled, event_count, master, faults,
                         gen_calls, gen_before_first>>
       \/ /\ Raised("Exception", FALSE)
          /\ UNCHANGED <<dev, dev_received>>
    /\ UNCHANGED <<layout, direct_sent, action_history, thought_history, journal, flat,
                   notes, answers, answer, text>>
    /\ UNCHANGED <<utgVars, envVars, naiveVars, replayVars,
                   adapterVars>>

(***************************************************************************)
(* UtgReplayPolicy                                                         *)
(***************************************************************************)

MAX_REPLY_TRIES == 5

\* the intent that brings the app to the foreground
ForegroundIntent == "FOREGROUND"

\* recordings of earlier runs: the start state and the event of each event file
RecordingOfThree ==
    <<[start_state |-> "A", event |-> "a1"],
      [start_state |-> "B", event |-> "b1"],
      [start_state |-> "C", event |-> "c1"]>>

RecordingOfTwo ==
    <<[start_state |-> "H", event |-> KillAppEvent],
      [start_state |-> "H", event |-> StartIntent]>>

RecordingOfFive == RecordingOfTwo \o RecordingOfThree

RecordingFromLauncher ==
    <<[start_state |-> "A", event |-> "a2"],
      [start_state |-> "B", event |-> "b1"],
      [start_state |-> "H", event |-> "h1"],
      [start_state |-> "A", event |-> "a1"]>>

Recordings == {RecordingOfTwo, RecordingOfThree, RecordingOfFive, RecordingFromLauncher}

\* the screen a device that reproduces the recording shows: the start state of the
\* entry it has come to, and the screen after the last recorded event
ShownScreen(paths, k) == IF k <= Len(paths) THEN paths[k].start_state ELSE "B"

\* what device.is_foreground(app) can answer after get_current_state returned s: the
\* app may have left the foreground since an app screen was captured; the launcher and
\* the screens of other apps are never the app in the foreground
ForegroundAnswers(s) == IF s # None /\ IsForeground(s) THEN BOOLEAN ELSE {FALSE}

\* the device as a call can find it: a screen of `screens` and a foreground answer
Conditions(screens) ==
    UNION {{[state |-> s, fg |-> f] : f \in ForegroundAnswers(s)} : s \in screens}

\* UtgReplayPolicy.generate_event from the test of the outer while on: the outcomes of
\* the call after n passes of the loop, the device showing one of `screens` at each try
RECURSIVE ReplayCall(_, _, _, _, _)
ReplayCall(paths, idx, tries, screens, n) ==
    IF ~(idx < Len(paths) /\ tries < MAX_REPLY_TRIES)
    THEN {[ret |-> None, rule |-> "none_returned", idx |-> idx, tries |-> tries,
           passes |-> n, met |-> c] : c \in Conditions(screens)}
    ELSE UNION {
            LET matches == {p \in (idx + 1)..Len(paths) : paths[p].start_state = s}
            IN  IF s = None
                THEN {[ret |-> BACK, rule |-> "unavailable", idx |-> idx, tries |-> 0,
                       passes |-> n + 1,
                       met |-> [state |-> s, fg |-> FALSE]]}
                ELSE IF matches = {}
                THEN ReplayCall(paths, idx, tries + 1, screens, n + 1)
                ELSE {IF ~f
                      THEN [ret |-> ForegroundIntent, rule |-> "foreground", idx |-> idx,
                            tries |-> tries + 1, passes |-> n + 1,
                            met |-> [state |-> s, fg |-> f]]
                      ELSE [ret |-> paths[Least(matches)].event, rule |-> "replay",
                            idx |-> Least(matches), tries |-> 0, passes |-> n + 1,
                            met |-> [state |-> s, fg |-> f]]
                      : f \in ForegroundAnswers(s)}
            : s \in screens}

\* the policy's fields after generate_event ended with outcome out
ReplayReturnsCursorKept(out) ==
    /\ returned' = out.ret
    /\ rule' = out.rule
    /\ event_idx' = event_idx
    /\ num_replay_tries' = out.tries
    /\ replayed' = IF out.rule = "replay" THEN Append(replayed, out.ret) ELSE replayed
    /\ met' = out.met
    /\ passes' = out.passes
    /\ utg' = IF out.passes = 0 \/ (out.passes = 1 /\ out.rule = "unavailable") THEN utg
              ELSE AddTransition(utg, last_event, last_state, current_state)
    /\ last_state' = IF out.rule = "replay" THEN current_state ELSE last_state
    /\ last_event' = IF out.rule = "replay" THEN out.ret ELSE last_event
    /\ UNCHANGED <<current_state, event_paths>>

ReplayReturns(out) ==
    /\ returned' = out.ret
    /\ rule' = out.rule
    /\ event_idx' = out.idx
    /\ num_replay_tries' = out.tries
    /\ replayed' = IF out.rule = "replay" THEN Append(replayed, out.ret) ELSE replayed
    /\ met' = out.met
    /\ passes' = out.passes
    /\ utg' = IF out.passes = 0 \/ (out.passes = 1 /\ out.rule = "unavailable") THEN utg
              ELSE AddTransition(utg, last_event, last_state, current_state)
    /\ last_state' = IF out.rule = "replay" THEN current_state ELSE last_state
    /\ last_event' = IF out.rule = "replay" THEN out.ret ELSE last_event
    /\ UNCHANGED <<current_state, event_paths>>

\* one call of UtgReplayPolicy.generate_event(), made by a caller that passes no
\* argument; afterwards a device that reproduces the recording moves on by one entry
\* when it was sent a recorded event
ReplayPoll ==
    /\ policy = "replay"
    /\ calls < call_budget
    /\ calls' = calls + 1
    /\ \E out \in ReplayCall(event_paths, event_idx, num_replay_tries,
                              IF shown = 0 THEN avail
                              ELSE {ShownScreen(event_paths, shown)}, 0) :
          /\ ReplayReturns(out)
          /\ shown' = IF shown # 0 /\ out.rule = "replay" THEN shown + 1 ELSE shown
    /\ UNCHANGED <<random_input, search_method, nav_target, nav_num_steps, num_restarts,
                   num_steps_outside, event_trace, missed_states, random_explore,
                   nav_path>>
    /\ UNCHANGED <<loopVars, envVars, naiveVars, taskVars, adapterVars>>

\* InputPolicy.start calling self.generate_event(input_manager) on UtgReplayPolicy,
\* whose generate_event takes no argument: the call raises TypeError before the body
ReplayGenerate ==
    /\ pc = "generate"
    /\ policy = "replay"
    /\ Raised("Exception", TRUE)
    /\ UNCHANGED <<submitted, first_submitted, last_submitted>>
    /\ UNCHANGED <<utgVars, envVars, naiveVars, taskVars, replayVars,
                   adapterVars>>

\* input_manager.add_event(event) in a run of the replay policy
ReplayAddEvent ==
    /\ pc = "send"
    /\ policy = "replay"
    /\ AddEventCounts
    /\ \/ /\ action_count' = action_count + 1
          /\ pc' = "loop"
          /\ pending' = None
          /\ UNCHANGED <<policy, stop_cause, enabled, event_count, master, faults,
                         gen_calls, gen_before_first>>
       \/ \E k \in ExceptionKinds : Raised(k, FALSE)
    /\ UNCHANGED <<utgVars, envVars, naiveVars, taskVars, replayVars,
                   adapterVars>>

\* UtgReplayPolicy.__init__
InitReplayVars(paths, k) ==
    /\ event_paths = paths
    /\ event_idx = 2
    /\ num_replay_tries = 0
    /\ replayed = <<>>
    /\ shown = k
    /\ met = [state |-> None, fg |-> FALSE]
    /\ passes = 0

\* the values of config["unique_screens"] the runs with an adapter are given
UniqueScreensLimits == {0, 1, 2}

\* TaskPolicyAdapter.__init__ with config["unique_screens"] = limit, or no adapter
\* MemoryAdapter.__init__ and _init_memory
InitMemoryVars ==
    /\ visited_states = {}
    /\ visited_sections = [n \in SectionNames |-> [visited |-> FALSE, found |-> {}]]
    /\ navigation_history = <<>>
    /\ memory_transitions = <<>>
    /\ memory_last_state = None
    /\ exploration_complete = FALSE
    /\ observed = [state |-> None, screenshot |-> FALSE]
    /\ to_run = {}

InitAdapterVars(registered, limit) ==
    /\ state_callbacks = registered
    /\ unique_screens = {}
    /\ unique_screens_limit = limit
    /\ task_policy = 0
    /\ InitMemoryVars

InitLoopVars(p, n) ==
    /\ policy = p
    /\ pc = "loop"
    /\ stop_cause = "none"
    /\ enabled = TRUE
    /\ event_count = n
    /\ action_count = 0
    /\ master = None
    /\ pending = None
    /\ faults = 0
    /\ submitted = 0
    /\ first_submitted = None
    /\ last_submitted = None
    /\ gen_calls = 0
    /\ gen_before_first = 0

\* UtgBasedInputPolicy.__init__ and UtgGreedySearchPolicy.__init__
InitUtgVars(ri, sm, re) ==
    /\ random_input = ri
    /\ search_method = sm
    /\ current_state = None
    /\ utg = {}
    /\ nav_target = None
    /\ nav_num_steps = -1
    /\ num_restarts = 0
    /\ num_steps_outside = 0
    /\ event_trace = <<>>
    /\ missed_states = {}
    /\ random_explore = re
    /\ returned = None
    /\ rule = "none"
    /\ nav_path = <<>>
    /\ calls = 0
    /\ last_state = None
    /\ last_event = None

\* UtgNaiveSearchPolicy.__init__
InitNaiveVars ==
    /\ last_event_flag = [starts |-> 0, last |-> "none"]
    /\ last_event_str = None
    /\ explored_views = {}
    /\ state_transitions = {}

\* TaskPolicy.__init__ and the device at the start of the run
InitTaskVars(d, lay, ans, n) ==
    /\ dev = d
    /\ layout = lay
    /\ answers = ans
    /\ notes = n
    /\ answer = <<>>
    /\ text = None
    /\ dev_received = 0
    /\ direct_sent = 0
    /\ action_history = <<>>
    /\ thought_history = <<>>
    /\ journal = <<>>
    /\ flat = [ups1 |-> 0, downs |-> 0, ups2 |-> 0, top |-> None, end |-> None, views |-> 0,
               news |-> <<>>, actions |-> <<>>]

\* the run's environment
InitEnv(screens, edges, budget) ==
    /\ avail = screens
    /\ pool = edges
    /\ call_budget = budget

Init ==
    /\ \E n \in 0..EventCount : InitLoopVars("abstract", n)
    /\ InitUtgVars(FALSE, "none", FALSE)
    /\ InitNaiveVars
    /\ InitEnv({}, {}, 0)
    /\ InitTaskVars(None, LayoutFlat, {}, NoNotes)
    /\ InitReplayVars(<<>>, 0)
    /\ InitAdapterVars({}, 0)

Next ==
    \/ LoopTop
    \/ AbstractGenerate
    \/ AbstractAddEvent
    \/ Disable

Spec == Init /\ [][Next]_vars

\* ----- InputPolicy.start in runs of any length; the thread of start keeps running

InitRun ==
    /\ \E n \in 0..EventCount, p \in NoArgumentPolicies \cup {"abstract"} :
          InitLoopVars(p, n)
    /\ InitUtgVars(FALSE, "none", FALSE)
    /\ InitNaiveVars
    /\ InitTaskVars(None, LayoutFlat, {}, NoNotes)
    /\ InitEnv({}, {}, 0)
    /\ InitReplayVars(<<>>, 0)
    /\ InitAdapterVars({}, 0)

NextRun ==
    \/ LoopTop
    \/ RunGenerate
    \/ RunAddEvent
    \/ Disable

SpecRun ==
    /\ InitRun
    /\ [][NextRun]_vars
    /\ WF_vars(LoopTop)
    /\ WF_vars(RunGenerate)
    /\ WF_vars(RunAddEvent)

\* ----- the greedy policy, called on the screens the device shows

InitGreedy ==
    /\ InitLoopVars("greedy", 0)
    /\ \E ri \in BOOLEAN, sm \in {POLICY_GREEDY_DFS, POLICY_GREEDY_BFS} :
          InitUtgVars(ri, sm, FALSE)
    /\ InitNaiveVars
    /\ \/ InitEnv(States, EdgePool, MaxCalls)
       \/ InitEnv({"H"}, LauncherPool, MAX_NUM_RESTARTS + 1 + MaxCalls)
       \/ InitEnv({"O"}, {}, MAX_NUM_STEPS_OUTSIDE_KILL + MaxCalls)
    /\ InitTaskVars(None, LayoutFlat, {}, NoNotes)
    /\ InitReplayVars(<<>>, 0)
    /\ InitAdapterVars({}, 0)

NextGreedy ==
    \/ \E s \in States : GreedyPoll(s)
    \/ UtgAddTransition

InitNaive ==
    /\ InitLoopVars("naive", 0)
    /\ \E ri \in BOOLEAN, sm \in {POLICY_NAIVE_DFS, POLICY_NAIVE_BFS} :
          InitUtgVars(ri, sm, FALSE)
    /\ InitNaiveVars
    /\ \/ InitEnv({"A", "B", "C", "H"}, {}, MaxCalls + 1)
       \/ InitEnv({"H"}, {}, 2 * (MAX_NUM_RESTARTS + 1) + MaxCalls)
    /\ InitTaskVars(None, LayoutFlat, {}, NoNotes)
    /\ InitReplayVars(<<>>, 0)
    /\ InitAdapterVars({}, 0)

NextNaive == \E s \in States : NaivePoll(s)

SpecNaive == InitNaive /\ [][NextNaive]_vars

\* ----- the loop over the task policy, on a device

InitTask ==
    /\ InitNaiveVars
    /\ InitReplayVars(<<>>, 0)
    /\ \/ /\ \E ri \in BOOLEAN : InitUtgVars(ri, "none", ri)
          /\ InitLoopVars("task", EventCount)
          /\ InitAdapterVars({}, 0)
          /\ \E lay \in Layouts, p \in {0, 1} :
                /\ InitEnv({"B", ListState(p)}, {}, 0)
                /\ InitTaskVars("B", lay, OracleAnswers, NoNotes)
       \/ /\ \E ri \in BOOLEAN : InitUtgVars(ri, "none", ri)
          /\ InitLoopVars("task", EventCount)
          /\ InitAdapterVars({}, 0)
          /\ \E screens \in {{"H", "B", None}, {"O", "B"}} :
                /\ InitEnv(screens, {}, 0)
                /\ InitTaskVars("B", LayoutFlat, OracleAnswers, NoNotes)
       \/ /\ \E ri \in BOOLEAN : InitUtgVars(ri, "none", ri)
          /\ InitLoopVars("task", MAX_NUM_RESTARTS + 2 + EventCount)
          /\ InitAdapterVars({}, 0)
          /\ InitEnv({"H"}, {}, 0)
          /\ InitTaskVars("H", LayoutFlat, OracleAnswers, NoNotes)
       \/ /\ InitUtgVars(FALSE, "none", FALSE)
          /\ InitLoopVars("task", AuthSteps)
          /\ InitAdapterVars({}, 0)
          /\ InitEnv(AuthStates, {}, 0)
          /\ \E n \in NotesChoices : InitTaskVars("N", LayoutFlat, UnreliableAnswers, n)
       \/ /\ InitUtgVars(FALSE, "none", FALSE)
          /\ InitLoopVars("task", EventCount)
          /\ \E limit \in UniqueScreensLimits : InitAdapterVars({"adapter"}, limit)
          /\ InitEnv({"A", "B", "C"}, {}, 0)
          /\ InitTaskVars("A", LayoutFlat, {-1, 0}, NoNotes)

NextTask ==
    \/ LoopTop
    \/ TaskGenerate
    \/ TaskAddEvent

SpecTask == InitTask /\ [][NextTask]_vars

SpecGreedy == InitGreedy /\ [][NextGreedy]_vars

\* ----- the greedy policy in a run on the app of World

InitGreedyRun ==
    /\ InitLoopVars("greedy", 0)
    /\ \E ri \in BOOLEAN, sm \in {POLICY_GREEDY_DFS, POLICY_GREEDY_BFS} :
          InitUtgVars(ri, sm, FALSE)
    /\ InitNaiveVars
    /\ InitEnv({}, {}, MAX_NUM_STEPS_OUTSIDE + RunCalls)
    /\ InitTaskVars("A", LayoutFlat, {}, NoNotes)
    /\ InitReplayVars(<<>>, 0)
    /\ InitAdapterVars({}, 0)

NextGreedyRun == GreedyStep

SpecGreedyRun == InitGreedyRun /\ [][NextGreedyRun]_vars

\* ----- the greedy policy in a run of any length on the app of FlakyWorld; the
\* policy is asked for its next event again and again

InitGreedyNav ==
    /\ policy = "greedy" /\ pc = "generate" /\ stop_cause = "none" /\ enabled = TRUE
    /\ event_count = 0 /\ action_count = 0 /\ master = None /\ pending = None
    /\ faults = 0 /\ submitted = 0 /\ first_submitted = None /\ last_submitted = None
    /\ gen_calls = 0 /\ gen_before_first = 0
    /\ \E ri \in BOOLEAN, sm \in {POLICY_GREEDY_DFS, POLICY_GREEDY_BFS} :
          InitUtgVars(ri, sm, FALSE)
    /\ InitNaiveVars
    /\ InitEnv({}, {}, 0)
    /\ InitTaskVars("A", LayoutFlat, {}, NoNotes)
    /\ InitReplayVars(<<>>, 0)
    /\ InitAdapterVars({}, 0)

NextGreedyNav == GreedyNavGenerate \/ GreedyNavSend

\* the thread of InputPolicy.start moves on: from the call of generate_event to the
\* sending of the event and back.  In these runs GreedyNavGenerate can be taken
\* whenever pc is "generate" and GreedyNavSend whenever pc is "send", and they are
\* the only steps that change pc.
Proceeds == pc' = IF pc = "generate" THEN "send" ELSE "generate"

SpecGreedyNav == InitGreedyNav /\ [][NextGreedyNav]_vars /\ WF_pc(Proceeds)

\* ----- InputPolicy.start over the task policy on the authentication screens, with a
\* budget the run does not reach; the thread of start goes on running

InitTaskAuth ==
    /\ InitUtgVars(FALSE, "none", FALSE)
    /\ InitLoopVars("task", AuthSteps + 1)
    /\ InitNaiveVars
    /\ InitReplayVars(<<>>, 0)
    /\ InitAdapterVars({}, 0)
    /\ InitEnv({"P", "N"}, {}, 0)
    /\ \E n \in {NoNotes, PinNotes}, d \in {"P", "N"} :
          InitTaskVars(d, LayoutFlat, {-1, 0, 7}, n)

NextTaskAuth ==
    \/ LoopTop
    \/ TaskAuthGenerate
    \/ TaskAuthAddEvent

SpecTaskAuth ==
    InitTaskAuth /\ [][NextTaskAuth]_vars
    /\ WF_vars(LoopTop) /\ WF_vars(TaskAuthGenerate) /\ WF_vars(TaskAuthAddEvent)

\* ----- the state callbacks of run_droidbot, run by the device in any order

InitCallbacks ==
    /\ InitLoopVars("task", 0)
    /\ InitUtgVars(FALSE, "none", FALSE)
    /\ InitNaiveVars
    /\ InitReplayVars(<<>>, 0)
    /\ InitTaskVars(None, LayoutFlat, {}, NoNotes)
    /\ InitEnv({"A", "B", "C"}, {}, 0)
    /\ \E registered \in {{"state_and_screen_callback", "state_callback"},
                           {"adapter", "state_and_screen_callback", "state_callback"}},
          limit \in {0, 2} :
          InitAdapterVars(registered, limit)

NextCallbacks == Observe \/ RunCallback

SpecCallbacks == InitCallbacks /\ [][NextCallbacks]_vars

\* ----- InputPolicy.start over the greedy policy

InitGreedyLoop ==
    /\ \E n \in 1..EventCount : InitLoopVars("greedy", n)
    /\ \E ri \in BOOLEAN, sm \in {POLICY_GREEDY_DFS, POLICY_GREEDY_BFS} :
          InitUtgVars(ri, sm, FALSE)
    /\ InitNaiveVars
    /\ InitEnv({"A", "B", "H", None}, {}, 0)
    /\ InitTaskVars("A", LayoutFlat, {}, NoNotes)
    /\ InitReplayVars(<<>>, 0)
    /\ InitAdapterVars({}, 0)

NextGreedyLoop ==
    \/ LoopTop
    \/ GreedyGenerate
    \/ GreedyAddEvent

SpecGreedyLoop == InitGreedyLoop /\ [][NextGreedyLoop]_vars

\* ----- the replay policy, called directly on the screens the device shows

InitReplay ==
    /\ InitLoopVars("replay", 0)
    /\ InitUtgVars(FALSE, "none", FALSE)
    /\ InitNaiveVars
    /\ InitTaskVars(None, LayoutFlat, {}, NoNotes)
    /\ InitAdapterVars({}, 0)
    /\ \E paths \in Recordings :
          \/ /\ \E k \in {1, 3} : InitReplayVars(paths, k)
             /\ InitEnv({}, {}, Len(paths) + MaxCalls)
          \/ /\ InitReplayVars(paths, 0)
             /\ InitEnv({"A", "B", "C", "H", None}, {}, MaxCalls + 1)

NextReplay == ReplayPoll

SpecReplay == InitReplay /\ [][NextReplay]_vars

\* ----- InputPolicy.start over the replay policy

InitReplayLoop ==
    /\ \E n \in 0..EventCount : InitLoopVars("replay", n)
    /\ InitUtgVars(FALSE, "none", FALSE)
    /\ InitNaiveVars
    /\ InitTaskVars(None, LayoutFlat, {}, NoNotes)
    /\ InitEnv({}, {}, 0)
    /\ \E paths \in Recordings : InitReplayVars(paths, 0)
    /\ InitAdapterVars({}, 0)

NextReplayLoop ==
    \/ LoopTop
    \/ ReplayGenerate
    \/ ReplayAddEvent
    \/ Disable

SpecReplayLoop == InitReplayLoop /\ [][NextReplayLoop]_vars

\* ----- the three policies that explore an app, each in its own runs

InitPolicies == InitNaive \/ InitGreedy \/ InitTask

NextPolicies == NextNaive \/ NextGreedy \/ NextTask

SpecPolicies == InitPolicies /\ [][NextPolicies]_vars

\* ----- every policy that records transitions, each in its own runs

InitRecording == InitNaive \/ InitGreedyRun \/ InitTask \/ InitReplay

NextRecording == NextNaive \/ NextGreedyRun \/ NextTask \/ NextReplay

SpecRecording == InitRecording /\ [][NextRecording]_vars

\* ----- properties of InputPolicy.start (Spec) -------------------------------

\* C1: in every run that submits an event, the first event given to add_event is the
\* kill-app event, and generate_event is not called before that event was submitted
C1_KillAppFirst ==
    /\ submitted > 0 => first_submitted = KillAppEvent
    /\ gen_before_first = 0
    /\ gen_calls > 0 => submitted > 0

C1_Witness ==
    /\ submitted >= 2
    /\ gen_calls >= 1
    /\ first_submitted = KillAppEvent
    /\ last_submitted # KillAppEvent

\* C3: an exception other than KeyboardInterrupt and InputInterruptedException leaves
\* the loop running, at the top of its next iteration with the count as it was; the
\* loop stops only on those two, on FINISHED, on the budget or on the cleared flag
C3_OtherExceptionContinues ==
    /\ [][faults' > faults =>
            /\ pc' = "loop"
            /\ stop_cause' = "none"
            /\ action_count' = action_count]_vars
    /\ [](pc = "stopped" =>
            stop_cause \in {"KeyboardInterrupt", "InputInterruptedException",
                            "finished", "budget", "disabled"})

C3_Witness ==
    /\ faults >= 1
    /\ pc = "send"
    /\ pending # KillAppEvent
    /\ stop_cause = "none"

\* ----- properties of the greedy policy (SpecGreedy) --------------------------

SomeOfferedUnexplored(g, s) ==
    \E i \in DOMAIN Offered(s) : ~IsEventExplored(g, Offered(s)[i], s)

\* C9: on a call with the app in the foreground and an offered event of the current
\* state unexplored, the greedy policy returns an event unexplored from that state by
\* the unexplored-first rule, and neither selects a navigation target nor takes
\* navigation steps
C9_UnexploredBeforeNavigation ==
    [][(/\ calls' = calls + 1
        /\ Depth(current_state') = 0
        /\ SomeOfferedUnexplored(utg, current_state'))
       => (/\ rule' = "explore"
           /\ ~IsEventExplored(utg, returned', current_state')
           /\ nav_path' = <<>>
           /\ nav_target' = nav_target
           /\ nav_num_steps' = nav_num_steps)]_vars

C9_Witness ==
    /\ rule = "explore"
    /\ current_state = "A"
    /\ returned = "a2"
    /\ <<"A", "a1", "B">> \in utg
    /\ ~IsEventExplored(utg, "a2", "A")
    /\ NavCandidates("A", utg, missed_states) # {}

\* the states that walks of exactly k recorded transitions from the states of S end in
RECURSIVE WalkEnds(_, _, _)
WalkEnds(g, S, k) == IF k = 0 THEN S ELSE WalkEnds(g, Successors(g, S), k - 1)

\* the least number of recorded transitions that lead from a to b, -1 if none do
TrueDistance(g, a, b) ==
    IF \E k \in 0..Cardinality(States) : b \in WalkEnds(g, {a}, k)
    THEN CHOOSE k \in 0..Cardinality(States) :
            /\ b \in WalkEnds(g, {a}, k)
            /\ \A j \in 0..(k - 1) : b \notin WalkEnds(g, {a}, j)
    ELSE -1

\* p is a sequence of (state, event) steps along recorded transitions from a to b
IsPath(g, p, a, b) ==
    /\ Len(p) > 0
    /\ p[1][1] = a
    /\ \A i \in DOMAIN p :
          <<p[i][1], p[i][2], IF i = Len(p) THEN b ELSE p[i + 1][1]>> \in g

ShortestPathOrEmpty(g, a, b, p) ==
    p # <<>> => IsPath(g, p, a, b) /\ Len(p) = TrueDistance(g, a, b)

NavigatingTakesFirstStep ==
    [][(calls' = calls + 1 /\ rule' = "navigate")
       => (/\ nav_target' # None
           /\ nav_path' \in NavigationSteps(utg, current_state', nav_target')
           /\ IsPath(utg, nav_path', current_state', nav_target')
           /\ Len(nav_path') = TrueDistance(utg, current_state', nav_target')
           /\ returned' = nav_path'[1][2])]_vars

C2_FinishedStopsLoop ==
    /\ [][(calls' = calls + 1 /\ rule' = "finished") => pending' = FINISHED]_vars
    /\ [][pending' = FINISHED => (pc' = "stopped" /\ stop_cause' = "finished")]_vars
    /\ [](first_submitted # FINISHED /\ last_submitted # FINISHED)
    /\ [][stop_cause = "finished" =>
            UNCHANGED <<pc, submitted, gen_calls, dev_received, action_count>>]_vars

C2_Witness ==
    /\ policy = "task"
    /\ rule = "finished"
    /\ stop_cause = "finished"
    /\ submitted >= 2

\* C4 as stated: the device never receives more than event_count events in a run.
C4_Original == dev_received <= event_count

\* C4, amended: the events that reach the device through add_event are the ones
\* counted in action_count, at most event_count of them; the scroll events of a
\* flattening reach the device besides, sent by the policy itself and uncounted.
C4_CountedEventsWithinBudget ==
    /\ dev_received - direct_sent = action_count
    /\ action_count <= event_count
    /\ action_count <= submitted
    /\ direct_sent > 0 => flat.top # None

C4_Witness ==
    /\ direct_sent > 0
    /\ dev_received > event_count
    /\ action_count = event_count

C6_Original ==
    (/\ policy \in {"greedy", "task"}
     /\ \A s \in avail : Depth(s) < 0
     /\ calls >= MAX_NUM_RESTARTS + 1) => random_explore

\* C7 as stated: a poll that finds the app not running, with random-fallback mode off
\* and the restart limit not reached, returns the start intent unless the event
\* before it was the start intent (a poll on which the oracle ends the task aside).
C7_Original ==
    [][(/\ calls' = calls + 1
        /\ Depth(current_state') < 0
        /\ ~random_explore'
        /\ num_restarts' <= MAX_NUM_RESTARTS
        /\ last_event # StartIntent
        /\ returned' \notin {FINISHED, "Exception"}) => returned' = StartIntent]_vars

\* C8 as stated: the first event the outside-app recovery returns is BACK, the stop
\* intent comes only later.
C8_Original ==
    [][(rule' = "outside" /\ rule # "outside") => returned' = BACK]_vars


\* C11: once is_event_explored(event, state) is true it stays true after every later
\* recording of a transition.
C11_ExploredStaysExplored ==
    [][\A tr \in utg : IsEventExplored(utg', tr[2], tr[1])]_vars

C11_Witness ==
    \E t1 \in utg : \E t2 \in utg :
        /\ t1[1] = t2[1]
        /\ t1[2] # t2[2]
        /\ IsEventExplored(utg, t1[2], t1[1])


\* C12 as stated: flattening a region sends at most MAX_SCROLL_NUM scroll events to
\* the device.
C12_Original == flat.ups1 + flat.downs + flat.ups2 <= MAX_SCROLL_NUM

\* C12, amended: flattening a region ends, and each of its three passes (up to the
\* top, down to the bottom, up to the top again) makes at most MAX_SCROLL_NUM scroll
\* iterations, so at most 3 * MAX_SCROLL_NUM scroll events are sent for the region.
C12_EachPassBounded ==
    /\ flat.ups1 <= MAX_SCROLL_NUM
    /\ flat.downs <= MAX_SCROLL_NUM
    /\ flat.ups2 <= MAX_SCROLL_NUM
    /\ flat.ups1 + flat.downs + flat.ups2 <= 3 * MAX_SCROLL_NUM
    /\ flat.top # None => flat.ups1 >= 1 /\ flat.downs >= 1 /\ flat.ups2 >= 1

C12_Witness ==
    /\ flat.downs = MAX_SCROLL_NUM
    /\ flat.ups2 = MAX_SCROLL_NUM
    /\ flat.ups1 + flat.downs + flat.ups2 > MAX_SCROLL_NUM


\* C20: random-fallback mode is permanent: once __random_explore is True in the greedy
\* or the task policy it is True after every later step of the run.
C20_RandomModeStaysOn ==
    [][(policy \in {"greedy", "task"} /\ random_explore) => random_explore']_vars

\* the greedy policy switched random mode on after too many restarts, and the call
\* after that one (the counter has gone up once more) left it on
C20_Witness ==
    /\ policy = "greedy" /\ ~random_input /\ random_explore
    /\ num_restarts > MAX_NUM_RESTARTS + 1

\* ----- properties of the decision (SpecTask) --------------------------------

\* a call of generate_event in which the oracle answered an index other than -1
OracleAnsweredIndex ==
    /\ pc = "generate" /\ pc' # "generate"
    /\ answer' # <<>> /\ answer' # <<-1>>

\* the candidate actions of the call that just ended, on a screen without a scrollable
\* region
CandidatesOfCall == Offered(current_state')

\* C13 as stated: for every index other than -1 that the oracle answers, the call does
\* not fail; it returns candidate_actions[idx] when idx is in range and
\* candidate_actions[0] for every other index, too large or negative.
C13_Original ==
    [][(OracleAnsweredIndex /\ ~IsScrollable(current_state'))
        => /\ rule' = "oracle"
           /\ returned' = IF answer'[1] >= 0 /\ answer'[1] < Len(CandidatesOfCall)
                          THEN CandidatesOfCall[answer'[1] + 1]
                          ELSE CandidatesOfCall[1]]_vars

\* the oracle answered -2 on a screen with one candidate and the call raised
C13_IndexErrorRaised == rule = "index_error" /\ answer = <<-2>> /\ current_state = "N"

\* the oracle answered -2 on a screen with three candidates and the second was returned
C13_NegativeSelectsFromEnd ==
    rule = "oracle" /\ answer = <<-2>> /\ current_state = "W" /\ returned = "q2"

\* a call of generate_event on an authentication screen for which
\* _try_direct_auth_action returns None
ShortcutFindsNothing ==
    /\ pc = "generate" /\ pc' # "generate"
    /\ current_state' \in AuthStates
    /\ IsAuthenticationScreen(Lines(current_state'))
    /\ ~TryDirectAuthAction(Lines(current_state'), notes).found

\* C14: on an authentication screen on which the credential shortcut finds no input
\* field for a credential, the oracle is consulted in the same call and its answer
\* determines what the call returns: FINISHED for -1, else the candidate the index
\* selects (or the failure of the call when the oracle or the subscript raises).
C14_OracleReachedAfterShortcut ==
    [][ShortcutFindsNothing
        => /\ rule' \in {"oracle", "finished", "index_error", "oracle_failed"}
           /\ rule' = "finished" => answer' = <<-1>> /\ returned' = FINISHED
           /\ rule' = "index_error" => answer' # <<>> /\ returned' = "Exception"
           /\ rule' = "oracle"
                => /\ answer' # <<>>
                   /\ returned' = CandidatesOfCall[SelectedPosition(answer'[1],
                                                        Len(CandidatesOfCall))]]_vars

\* the shortcut found nothing on the password screen (no password in the notes) and the
\* oracle's answer 1 chose the login button
C14_Witness ==
    /\ current_state = "W" /\ ~TryDirectAuthAction(Lines("W"), notes).found
    /\ rule = "oracle" /\ answer = <<1>> /\ returned = "q2"
\* has_pin_field of _try_direct_auth_action: an input element together with the word pin
HasPinField(lines) ==
    /\ \E i \in DOMAIN lines : lines[i].input
    /\ \E i \in DOMAIN lines : "pin" \in lines[i].words

\* the credentials found in the notes themselves, before any default
Extracted(n) ==
    IF "pin" \notin Kinds(PatternCredentials(n)) /\ n.digits # None
    THEN Append(PatternCredentials(n), [kind |-> "pin", value |-> n.digits])
    ELSE PatternCredentials(n)

\* a call of generate_event that got as far as the authentication shortcut on an
\* authentication screen
ShortcutTried ==
    /\ pc = "generate" /\ pc' # "generate"
    /\ current_state' \in AuthStates
    /\ IsAuthenticationScreen(Lines(current_state'))

\* C15 as stated: the shortcut types the default PIN only when no credential of any
\* kind was extracted from the notes and the screen has a PIN-shaped input field, and a
\* credential extracted from the notes is never dropped or replaced by the default: when
\* an input field of the screen matches an extracted credential, that credential is
\* typed.
C15_Original ==
    [][ShortcutTried
        => /\ (rule' = "auth" /\ text' = DefaultPin)
                => Extracted(notes) = <<>> /\ HasPinField(Lines(current_state'))
           /\ (\E i \in DOMAIN Lines(current_state') :
                    /\ Lines(current_state')[i].input
                    /\ MatchingCredentials(Lines(current_state')[i], Extracted(notes)) # {})
                => /\ rule' = "auth"
                   /\ \E c \in DOMAIN Extracted(notes) :
                         text' = Extracted(notes)[c].value]_vars

\* the default PIN was typed into the verification-code field of a screen without the
\* word pin
C15_DefaultWithoutPinField ==
    /\ current_state = "V" /\ rule = "auth" /\ text = DefaultPin /\ returned = "r1"
    /\ ~HasPinField(Lines("V"))

\* a password was extracted from the notes and the screen has a password field, but
\* the shortcut dropped the password for the default PIN and typed nothing
C15_PasswordDropped ==
    /\ current_state = "W" /\ notes = PasswordNotes /\ rule = "oracle"

\* the default PIN was typed on the PIN screen although a password was extracted
C15_DefaultDespitePassword ==
    /\ current_state = "P" /\ notes = PasswordNotes /\ rule = "auth" /\ text = DefaultPin
\* a call of TaskPolicy.generate_event_based_on_utg that returns an event: one chosen by
\* the oracle, one produced by the authentication shortcut, or a restart or go-back
\* event
TaskStepReturnsEvent ==
    /\ policy = "task" /\ pc = "generate" /\ pc' # "generate"
    /\ current_state' # None
    /\ rule' \in {"oracle", "auth", "start", "outside"}

\* C16 as stated: every call of the task policy that returns an event appends exactly
\* one record to the journal, and the earlier records stay as they were, in order.
C16_Original ==
    [][TaskStepReturnsEvent
        => /\ Len(journal') = Len(journal) + 1
           /\ SubSeq(journal', 1, Len(journal)) = journal]_vars

\* C16: the part that holds: a call that returns an event chosen by the oracle appends
\* exactly one record, no other step of the run touches the journal, and the earlier
\* records stay as they were, in order.
C16_OracleChoicesJournalled ==
    [][/\ Len(journal') >= Len(journal)
       /\ SubSeq(journal', 1, Len(journal)) = journal
       /\ Len(journal') = Len(journal) + 1 <=> (TaskStepReturnsEvent /\ rule' = "oracle")
       /\ Len(journal') <= Len(journal) + 1]_vars

\* the shortcut returned a credential event and the journal has no record of it
C16_ShortcutNotJournalled ==
    /\ rule = "auth" /\ text # None /\ pc = "send" /\ journal = <<>>

\* the start intent was returned and the journal has no record of it
C16_StartNotJournalled ==
    /\ policy = "task" /\ rule = "start" /\ returned = StartIntent /\ pc = "send"
    /\ journal = <<>>
\* ----- properties of UtgReplayPolicy (SpecReplay, SpecReplayLoop) ------------

\* the events of a recording, in recorded order
RecordedEvents(paths) == [i \in DOMAIN paths |-> paths[i].event]

\* a call of generate_event on a device that reproduces the recording from its first
\* entry on, every recorded start state being a foreground screen of the app
ReproducingCall ==
    /\ policy = "replay" /\ shown = Len(replayed) + 1 /\ calls' = calls + 1
    /\ met'.fg
    /\ \A i \in DOMAIN event_paths : IsForeground(event_paths[i].start_state)

\* C17 as stated: on a device that presents the recorded start states in recorded order
\* with the app in the foreground, the replay policy returns exactly the n recorded
\* events, in recorded order and with none skipped: each call returns the next recorded
\* event until all n have been returned.
C17_Original ==
    [][ReproducingCall
        => IF Len(replayed) < Len(event_paths)
           THEN /\ returned' = event_paths[Len(replayed) + 1].event
                /\ replayed' = Append(replayed, returned')
           ELSE replayed' = RecordedEvents(event_paths)]_vars

\* the device showed the start state of the first of three recorded entries and the
\* call returned no event at all, with the tries used up for the rest of the run
C17_NothingReplayed ==
    /\ event_paths = RecordingOfThree /\ shown = 1 /\ calls = 1
    /\ rule = "none_returned" /\ returned = None /\ replayed = <<>> /\ num_replay_tries = MAX_REPLY_TRIES
\* the read cursor has passed the last recorded entry
CursorPastEnd == event_idx >= Len(event_paths)

\* C18 as stated: once the read cursor has passed the last recorded entry the run ends:
\* the call of generate_event that finds the cursor there stops the loop, and nothing
\* more is submitted through add_event.
C18_Original ==
    [][(policy = "replay" /\ CursorPastEnd /\ gen_calls' = gen_calls + 1)
        => pc' = "stopped" /\ submitted' = submitted]_vars

\* the loop called generate_event with the cursor past the end, and goes round again
C18_LoopGoesOn ==
    /\ policy = "replay" /\ CursorPastEnd /\ gen_calls > 0 /\ pc = "loop"
    /\ stop_cause = "none"

\* called without an argument, generate_event returns None, not FINISHED, after the
\* last recorded event was replayed
C18_NoneAfterLastEvent ==
    /\ policy = "replay" /\ CursorPastEnd /\ replayed # <<>>
    /\ rule = "none_returned" /\ returned = None /\ returned # FINISHED
\* ----- properties of TaskPolicyAdapter (SpecTask) --------------------------

\* TaskPolicyAdapter._state_callback: `len(self.unique_screens) >= limit` with a limit
LimitReached ==
    /\ "adapter" \in state_callbacks
    /\ unique_screens_limit > 0
    /\ Cardinality(unique_screens) >= unique_screens_limit

\* C19 as stated: with a unique_screens limit N > 0, once the N-th distinct state has
\* been reported to the state callbacks the loop sends no further events: the event of
\* the call that observed the N-th state may still go out, but generate_event is not
\* called again.
C19_Original == [][LimitReached => gen_calls' = gen_calls]_vars

\* with a limit of 2 the callbacks have seen three distinct screens and a further
\* event is about to be sent
C19_ThirdScreenExplored ==
    /\ unique_screens_limit = 2 /\ Cardinality(unique_screens) = 3
    /\ pc = "send" /\ rule = "oracle"

\* ----- properties of the greedy policy's navigation (SpecGreedyRun) -----------

\* the call just made went on to navigate: __get_nav_target returned a target
Navigated == calls' = calls + 1 /\ rule' = "navigate"

\* the target that call routes toward was kept from the step before
TargetKept == KeepsTarget(current_state', utg', event_trace, nav_target, nav_num_steps)

\* the target the call routes toward is reachable by a non-empty path, in the
\* foreground, not missed and not fully explored
TargetIsValid ==
    /\ BfsDistance(utg', current_state', nav_target') > 0
    /\ Len(nav_path') > 0
    /\ Depth(nav_target') = 0
    /\ nav_target' \notin missed_states'
    /\ ~IsStateExplored(utg', nav_target')

C21_NewTargetValid == [][Navigated /\ ~TargetKept => TargetIsValid]_vars

\* C21: the policy routes to a kept target that is fully explored
C21_KeptTargetExplored ==
    /\ rule = "navigate"
    /\ IsStateExplored(utg, nav_target)
    /\ num_steps_outside = 0

\* the call just made ran __get_nav_target after a navigation step toward nav_target
SelectsAfterNavigation ==
    /\ calls' = calls + 1
    /\ rule = "navigate"
    /\ rule' \in {"navigate", "random", "stop"}

\* the shortest path from the screen of the call to the previous target is non-empty
\* and not longer than the length recorded at the previous step
PathDidNotGrow ==
    /\ 0 < BfsDistance(utg', current_state', nav_target)
    /\ BfsDistance(utg', current_state', nav_target) <= nav_num_steps

SelectionReached ==
    /\ calls' = calls + 1
    /\ rule' \in {"explore", "navigate", "random", "stop"}

\* C23: with dfs_greedy the unexplored-first rule returns BACK only when every event
\* the current state offers is explored from it; with bfs_greedy it returns BACK,
\* before any offered event, whenever BACK is unexplored from the current state
C23_BackLastOrFirst ==
    [][SelectionReached =>
         /\ (search_method = POLICY_GREEDY_DFS /\ rule' = "explore" /\ returned' = BACK)
               => IsStateExplored(utg, current_state')
         /\ (search_method = POLICY_GREEDY_BFS /\ ~IsEventExplored(utg, BACK, current_state'))
               => (rule' = "explore" /\ returned' = BACK)
         /\ (search_method = POLICY_GREEDY_BFS /\ rule' = "explore" /\ returned' # BACK)
               => IsEventExplored(utg, BACK, current_state')]_vars

\* C23: a depth-first call on the first screen, both of whose events are explored,
\* returned BACK as the unexplored event
C23_Witness ==
    /\ search_method = POLICY_GREEDY_DFS
    /\ rule = "explore"
    /\ returned = BACK
    /\ current_state = "A"
    /\ IsStateExplored(utg, "A")
    /\ ~IsEventExplored(utg, BACK, "A")

\* ----- properties of the flattening (SpecTask) --------------------------------

\* the number of new views the k-th downward scroll of the latest flattening revealed
NewViewsOfScroll(k) == flat.news[k]

\* the downward pass of the latest flattening stopped before MAX_SCROLL_NUM scrolls
StoppedEarly == flat.downs > 0 /\ flat.downs < MAX_SCROLL_NUM

\* C24: downward scrolling stops before MAX_SCROLL_NUM scrolls only if a scroll
\* revealed no new view or two consecutive scrolls each revealed fewer than 2 new
\* views; two such scrolls separated by a scroll revealing 2 or more do not stop it
C24_Original ==
    StoppedEarly =>
        \/ NewViewsOfScroll(flat.downs) = 0
        \/ /\ flat.downs >= 2
           /\ NewViewsOfScroll(flat.downs) < 2
           /\ NewViewsOfScroll(flat.downs - 1) < 2

\* C24: the pass stopped after its third scroll, which revealed one new view, the
\* second having revealed two and the first one
C24_StoppedByDistantPair ==
    /\ flat.downs = 3
    /\ flat.news = <<1, 2, 1>>

\* the sum of the first k entries of flat.news
RECURSIVE NewViewsUpTo(_)
NewViewsUpTo(k) == IF k = 0 THEN 0 ELSE NewViewsUpTo(k - 1) + flat.news[k]

\* the downward scroll of the latest flattening that first revealed the i-th view of
\* the combined list, 0 for a view of the top of the region
RevealedBy(i) ==
    LET top_views == flat.views - NewViewsUpTo(Len(flat.news))
    IN  IF i <= top_views THEN 0
        ELSE CHOOSE k \in 1..Len(flat.news) :
                /\ i > top_views + NewViewsUpTo(k - 1)
                /\ i <= top_views + NewViewsUpTo(k)

\* the event sequence recorded for the i-th view is k downward scrolls and its action
ExactlyDownScrolls(i, k) ==
    LET a == flat.actions[i]
    IN  /\ Len(a) = k + 1
        /\ \A j \in 1..k : a[j] = ScrollDown
        /\ a[k + 1] \notin {ScrollDown, ScrollUp}

\* C25: the event sequence recorded for a view first revealed by the k-th downward
\* scroll is exactly k downward scroll events followed by the action on the view,
\* and a view of the top of the region has just its own action
C25_Original ==
    flat.downs > 0 => \A i \in DOMAIN flat.actions : ExactlyDownScrolls(i, RevealedBy(i))

\* C25, the part that holds: the views of the top of the region have just their
\* action, and the sequence of every other view ends with k downward scrolls and
\* its action
C25_EndsWithDownScrolls ==
    flat.downs > 0 =>
        \A i \in DOMAIN flat.actions :
            LET a == flat.actions[i]
                k == RevealedBy(i)
            IN  /\ Len(a) >= k + 1
                /\ k = 0 => Len(a) = 1
                /\ \A j \in (Len(a) - k)..(Len(a) - 1) : a[j] = ScrollDown
                /\ a[Len(a)] \notin {ScrollDown, ScrollUp}

\* C25: the sequence recorded for a view revealed by the first downward scroll
\* starts with an upward scroll
C25_UpScrollRecorded ==
    /\ flat.downs > 0
    /\ \E i \in DOMAIN flat.actions :
          /\ RevealedBy(i) = 1
          /\ flat.actions[i][1] = ScrollUp
          /\ Len(flat.actions[i]) = 3

IsPrefixOf(p, q) == Len(p) <= Len(q) /\ SubSeq(q, 1, Len(p)) = p

\* a call of generate_event_based_on_utg has just returned an event other than FINISHED
CallReturnedEvent == calls' = calls + 1 /\ pc' = "send"

\* C27: the action history and the thought history only grow: a call that returns an
\* event other than FINISHED appends exactly one entry to each, the two have the same
\* length, and no call removes or replaces earlier entries
C27_Original ==
    [][/\ Len(action_history') = Len(thought_history')
       /\ IsPrefixOf(action_history, action_history')
       /\ IsPrefixOf(thought_history, thought_history')
       /\ CallReturnedEvent =>
             /\ Len(action_history') = Len(action_history) + 1
             /\ Len(thought_history') = Len(thought_history) + 1]_vars

\* C27, the part that holds: the two histories have the same length, and a call
\* that returns an event other than FINISHED and does not start the app appends
\* one entry to each and leaves the earlier entries as they were
C27_GrowExceptOnStart ==
    [][/\ Len(action_history') = Len(thought_history')
       /\ rule' # "start" =>
             /\ IsPrefixOf(action_history, action_history')
             /\ IsPrefixOf(thought_history, thought_history')
       /\ (CallReturnedEvent /\ rule' # "start") =>
             /\ Len(action_history') = Len(action_history) + 1
             /\ Len(thought_history') = Len(thought_history) + 1]_vars

\* C27: the app was started again after the oracle had chosen events, and the
\* histories hold the launch entry alone
C27_HistoryReplaced ==
    /\ rule = "start"
    /\ Len(journal) >= 2
    /\ action_history = <<"launchApp">>
    /\ thought_history = <<"launch the app">>

\* ----- properties of the replay policy's tries (SpecReplay) ----------------

\* the latest call found a matching entry with the app in the background, on a device
\* that keeps showing the state it shows until an event is replayed
FoundInBackground == policy = "replay" /\ shown # 0 /\ rule = "foreground"

\* a call on which the device answers that the app is in the foreground
CallInForeground == policy = "replay" /\ calls' = calls + 1 /\ met'.fg

\* the call replays the first entry after the cursor whose start state is state s
ReplaysEntryOf(s) ==
    \E matches \in {{p \in (event_idx + 1)..Len(event_paths) :
                        event_paths[p].start_state = s}} :
        /\ matches # {}
        /\ rule' = "replay"
        /\ returned' = event_paths[Least(matches)].event
        /\ event_idx' = Least(matches)

\* C28 as stated: a call that finds a matching entry while the app is not in the
\* foreground returns the intent that brings the app to the foreground and leaves the
\* read cursor unchanged, and the same entry is replayed on a later call on which the
\* app is in the foreground in the same state, however many calls found the app in the
\* background before.
C28_Original ==
    [][/\ (policy = "replay" /\ calls' = calls + 1 /\ rule' = "foreground")
           => returned' = ForegroundIntent /\ event_idx' = event_idx
       /\ (FoundInBackground /\ CallInForeground /\ met'.state = met.state)
           => ReplaysEntryOf(met.state)]_vars

\* what holds: the intent is returned with the cursor and the replayed events unchanged,
\* and the entry is replayed by the foreground call as long as fewer than
\* MAX_REPLY_TRIES calls found the app in the background since the last replay
C28_ReplayedWhileTriesRemain ==
    [][/\ (policy = "replay" /\ calls' = calls + 1 /\ rule' = "foreground")
           => /\ returned' = ForegroundIntent
              /\ event_idx' = event_idx
              /\ replayed' = replayed
              /\ num_replay_tries' > num_replay_tries
       /\ (/\ FoundInBackground /\ CallInForeground /\ met'.state = met.state
           /\ num_replay_tries < MAX_REPLY_TRIES)
           => ReplaysEntryOf(met.state)]_vars

\* five calls found the matching entry of state C with the app in the background; the
\* sixth call finds the app in the foreground in state C and returns no event
C28_EntryNotReplayed ==
    /\ policy = "replay" /\ event_paths = RecordingOfThree /\ shown = 3
    /\ calls = MAX_REPLY_TRIES + 1
    /\ met = [state |-> "C", fg |-> TRUE]
    /\ rule = "none_returned" /\ returned = None
    /\ event_idx = 2 /\ replayed = <<>>
    /\ num_replay_tries = MAX_REPLY_TRIES

\* a call of UtgReplayPolicy.generate_event made while recorded entries are left
CallWithEntriesLeft ==
    policy = "replay" /\ calls' = calls + 1 /\ event_idx < Len(event_paths)

\* C29 as stated: the MAX_REPLY_TRIES bound applies per poll: every call made while
\* entries are left has up to MAX_REPLY_TRIES matching attempts of its own, it returns
\* no event only after MAX_REPLY_TRIES attempts, and a call that found no match does
\* not prevent a later call from making its attempts.
C29_Original ==
    [][CallWithEntriesLeft
        => /\ passes' >= 1
           /\ rule' = "none_returned" => passes' = MAX_REPLY_TRIES]_vars

\* what holds: the attempts are counted over the calls made since the last replayed
\* event (or unavailable state), MAX_REPLY_TRIES for all of them together
C29_TriesSharedByCalls ==
    [][CallWithEntriesLeft
        => /\ passes' <= MAX_REPLY_TRIES - num_replay_tries
           /\ rule' \in {"none_returned", "foreground"}
                 => num_replay_tries' = num_replay_tries + passes'
           /\ rule' = "none_returned" => num_replay_tries' = MAX_REPLY_TRIES
           /\ num_replay_tries = MAX_REPLY_TRIES
                 => passes' = 0 /\ rule' = "none_returned" /\ replayed' = replayed]_vars

\* a call found no match in MAX_REPLY_TRIES attempts; on the next call the device
\* shows the start state of the next recorded entry, the app in the foreground, and
\* the call returns no event without one attempt
C29_NoAttemptLeft ==
    /\ policy = "replay" /\ event_paths = RecordingOfThree /\ shown = 0
    /\ calls = 2 /\ event_idx = 2
    /\ met = [state |-> "C", fg |-> TRUE]
    /\ passes = 0
    /\ rule = "none_returned" /\ returned = None /\ replayed = <<>>

\* ----- properties of the recorded transitions (SpecRecording) --------------

C30_RunRecorded ==
    /\ policy = "greedy" /\ calls >= 2 /\ Cardinality(utg) >= 2

\* ----- properties of TaskPolicyAdapter.task_policy (SpecTask) ---------------

\* an adapter was constructed for the run
AdapterConstructed == "adapter" \in state_callbacks

\* C31 as stated: the adapter owns exactly one TaskPolicy per run: it is made when the
\* adapter is constructed, get_task_policy() returns that same non-null instance from
\* then on, and the state callbacks never make or replace an instance.
C31_Original ==
    [][AdapterConstructed => task_policy # 0 /\ task_policy' = task_policy]_vars

\* what holds: no callback makes or replaces an instance, for the adapter has none at
\* any time: get_task_policy() returns None throughout the run
C31_NeverAnInstance == AdapterConstructed => task_policy = 0

\* the adapter's callback has seen two screens and get_task_policy() returns None
C31_NoneAfterCallbacks ==
    /\ AdapterConstructed /\ Cardinality(unique_screens) >= 2 /\ calls >= 2
    /\ task_policy = 0

\* ----- termination of InputPolicy.start (SpecRun) ---------------------------

\* C32 as stated: with a finite event_count every run of InputPolicy.start eventually
\* stops, every iteration counting against the action budget, also when generate_event
\* raises on every call.
C32_Original == <>(pc = "stopped")

\* what holds: a run that never stops is one in which generate_event goes on raising
C32_StopsUnlessRaising ==
    <>(pc = "stopped") \/ []<><<RunGenerate /\ pc' = "loop">>_vars

\* the iterations that end in the `except Exception` clause leave action_count as it
\* was: the budget is not used up while generate_event has raised MaxFaults times
C32_RaisedUncounted ==
    /\ policy = "none" /\ event_count = 2 /\ action_count = 1
    /\ faults = MaxFaults /\ pc = "loop" /\ enabled

\* ----- recorded transitions against the device (SpecTask) -------------------

\* the transitions a step adds to the UTG
NewlyRecorded == utg' \ utg

\* a recorded scroll transition is what the device does: scrolling the region in state
\* tr[1] leads to state tr[3]
ScrollHappened(tr) == tr[3] = ScrollTo(layout, tr[1], tr[2])

\* the event of a recorded transition is the last event submitted to the device before
\* its to-state was observed
EventHappened(tr) == tr[2] = last_submitted

\* C33 as stated: every transition (e, s, s') the policy records matches what happened
\* on the device: e is the last event sent before s' was observed and s is the state
\* the device was in when e was sent; also after a poll that found the state
\* unavailable, and for the scroll events of a flattening whose downward pass stops
\* early.
C33_Original ==
    [][\A tr \in NewlyRecorded :
          IF tr[2] \in {ScrollUp, ScrollDown} THEN ScrollHappened(tr)
          ELSE EventHappened(tr)]_vars

\* after a poll that found the state unavailable, BACK was sent last, and the
\* transition recorded for the new state carries the event of the poll before
C33_BackNotRecorded ==
    /\ policy = "task" /\ pc = "send" /\ last_submitted = BACK
    /\ \E tr \in utg : tr[3] = current_state /\ tr[2] = "b1" /\ tr[1] = "B"
    /\ \A tr \in utg : tr[2] # BACK

\* the downward pass stopped early on a scroll that moved the region, and the first
\* scroll of the upward pass after it is recorded from the state before that scroll
C33_ScrollFromStaleState ==
    /\ policy = "task" /\ flat.downs > 0 /\ flat.ups2 > 0
    /\ \E tr \in utg : tr[2] = ScrollUp /\ ~ScrollHappened(tr)

\* ----- the unexplored-first rule over a run (SpecGreedyLoop) ----------------

\* C34 as stated: in a run of the greedy policy the unexplored-first rule never returns
\* the same event from the same state twice: once it has returned an event for state S
\* and a following state has been observed, the event counts as explored from S in the
\* later calls.
C34_Original ==
    [][(/\ policy = "greedy" /\ rule = "explore"
        /\ gen_calls' = gen_calls + 1 /\ current_state' = current_state)
        => ~(rule' = "explore" /\ returned' = returned)]_vars

\* what holds in these runs: no event the greedy policy chose reaches add_event, and
\* nothing is recorded
C34_NothingRecorded ==
    policy = "greedy" =>
        /\ utg = {}
        /\ last_event = None /\ last_state = None
        /\ last_submitted \in {None, KillAppEvent, BACK}

\* two calls on screen A have both returned a1 as unexplored, and a1 was never sent
C34_ReturnedTwice ==
    /\ policy = "greedy" /\ current_state = "A" /\ calls = 2 /\ faults = 2
    /\ rule = "explore" /\ returned = "a1"
    /\ event_trace = <<EVENT_FLAG_EXPLORE, EVENT_FLAG_EXPLORE>>
    /\ submitted = 1 /\ utg = {}

\* ----- routing toward a navigation target (SpecGreedyNav) -------------------

RoutingTo(T) ==
    /\ rule = "navigate" /\ nav_target = T
    /\ current_state # T /\ T \notin missed_states

C35_PathNotLonger ==
    [][\A T \in {"A", "B"} :
          RoutingTo(T) /\ RoutingTo(T)' => nav_num_steps' <= nav_num_steps]_vars

\* the navigation event a1 was sent on A, A is still showing, and the call after it
\* keeps B as target with the same path length and returns a1 again
C35_KeptOnUnchangedScreen ==
    /\ RoutingTo("B") /\ current_state = "A" /\ returned = "a1" /\ pc = "send"
    /\ <<"A", "a1", "A">> \in utg /\ <<"A", "a1", "B">> \in utg
    /\ nav_num_steps = 1 /\ BfsDistance(utg, "A", "B") = 1

\* ----- the authentication shortcut over a run (SpecTaskAuth) ----------------

\* the latest call was made on the screen S and returned the shortcut's event
ShortcutOn(S) == current_state = S /\ rule = "auth"

\* C36 as stated: if the screen stays the same authentication screen, the task policy
\* does not return the same credential text-input event on every step for ever: once
\* the credential has been entered for that screen, the decision oracle is eventually
\* consulted.
C36_Original ==
    \A S \in {"P", "N"} : ~<>[](dev = S /\ ShortcutOn(S))

\* what holds: whether the shortcut answers depends on the screen and the notes alone;
\* on a screen where it answered once it answers at every call, with the same event
\* and the same text, and the oracle is asked on the other screens only
C36_ShortcutDecidedByScreen ==
    [][\A S \in {"P", "N"} :
          ShortcutOn(S) /\ dev = S /\ pc = "generate"
          => rule' = "auth" /\ returned' = returned /\ text' = text]_vars

\* the PIN was entered on the PIN screen at three calls in a row, the screen still
\* shows, and no answer of the oracle was ever read
C36_EnteredThrice ==
    /\ ShortcutOn("P") /\ dev = "P" /\ calls = 3 /\ returned = "p1" /\ text = DefaultPin
    /\ thought_history = <<"pin">> /\ journal = <<>> /\ pc = "send"

\* ----- the read cursor of UtgReplayPolicy (SpecReplay) ----------------------

\* a is b with some of its elements left out
RECURSIVE IsSubsequence(_, _)
IsSubsequence(a, b) ==
    IF a = <<>> THEN TRUE
    ELSE IF b = <<>> THEN FALSE
    ELSE IF Head(a) = Head(b) THEN IsSubsequence(Tail(a), Tail(b))
    ELSE IsSubsequence(a, Tail(b))

\* the events of the recorded entries the cursor has passed, in recorded order
EventsPassed ==
    [i \in 1..(event_idx - 2) |-> event_paths[i + 2].event]

\* a call that returned a recorded event
ReplayingCall == calls' = calls + 1 /\ rule' = "replay"

\* C37: in UtgReplayPolicy the read cursor event_idx never decreases, each recorded entry
\* is replayed at most once (a call that replays an entry leaves the cursor past that
\* entry, and the entry it replays lies at or after the cursor), and the events replayed
\* so far form a subsequence of the recording in recorded order.
C37_CursorForward ==
    /\ [][/\ event_idx' >= event_idx
          /\ ReplayingCall =>
                /\ event_idx' > event_idx
                /\ returned' = event_paths[event_idx'].event
                /\ replayed' = Append(replayed, returned')]_vars
    /\ [](/\ IsSubsequence(replayed, EventsPassed)
          /\ Len(replayed) <= event_idx - 2)

\* two entries were replayed and an entry between them was passed over
C37_Witness ==
    /\ policy = "replay" /\ Len(replayed) = 2 /\ event_idx = 5
    /\ rule = "replay" /\ replayed # EventsPassed

\* ----- critical sections and the order of the callbacks (SpecCallbacks) -----

\* a view of the state s has a text that contains a keyword of the section n
KeywordInViews(s, n) ==
    \E i \in DOMAIN CriticalSections :
       /\ CriticalSections[i].name = n
       /\ \E k \in DOMAIN CriticalSections[i].keywords :
             \E t \in DOMAIN ViewTexts(ViewDicts(s)) :
                Contains(ViewTexts(ViewDicts(s))[t], Lower(CriticalSections[i].keywords[k]))

\* every callback has run for the observed state and record_state_visit was called
AllCallbacksRan == to_run = {} /\ observed.state \in visited_states

\* C38 as stated: the sections marked visited after a state is observed do not depend
\* on the order in which the registered callbacks run: if the newly observed state has a
\* view whose text contains a keyword of a section, the section is marked visited
\* whichever callback calls record_state_visit for the state first.
C38_Original ==
    AllCallbacksRan =>
        \A n \in SectionNames :
           KeywordInViews(observed.state, n) => visited_sections[n].visited

\* the first record of the state s was made without its views
FirstRecordedWithoutViews(s) ==
    \E i \in DOMAIN navigation_history :
       navigation_history[i].state = s /\ navigation_history[i].screenshot # ""

\* what holds: a section whose keyword is in a view of a visited state is marked
\* unless every visited state that shows the keyword was first recorded by
\* state_and_screen_callback
C38_MarkedWhenViewsFirst ==
    to_run = {} =>
        \A n \in SectionNames :
           (\E s \in visited_states :
               KeywordInViews(s, n) /\ ~FirstRecordedWithoutViews(s))
           => visited_sections[n].visited

\* state A, whose view reads "Crisis line", was handed to both callbacks, the one with
\* the screenshot first, and the section "crisis" is not marked
C38_MissedByOrder ==
    /\ AllCallbacksRan /\ observed.state = "A" /\ visited_states = {"A"}
    /\ FirstRecordedWithoutViews("A")
    /\ ~visited_sections["crisis"].visited

\* the same state handed to both callbacks, state_callback first: the section is marked
C38_MarkedByOrder ==
    /\ AllCallbacksRan /\ observed.state = "A" /\ visited_states = {"A"}
    /\ observed.screenshot /\ ~FirstRecordedWithoutViews("A")
    /\ visited_sections["crisis"].visited
==============================================================================
